---- MODULE Spec2Model ----
(***************************************************************************)
(* A model of the content-driven rendering pipeline of the portfolio site:  *)
(* the JSON loaders that run at module import, the module-level record sets *)
(* they fill, and the mappers / page assemblers that turn the record sets   *)
(* into component trees.                                                    *)
(*                                                                          *)
(* Text whose characters the code inspects (asset filenames, the education  *)
(* `details` string) is a sequence of one-character strings; all other text *)
(* is an opaque string.  A Python dict is a function whose DOMAIN is the    *)
(* set of keys present.  A call that may raise returns a record whose exc   *)
(* field names the exception ("none" when it returned).                     *)
(*                                                                          *)
(* fs is the content of the JSON files; pc is the module being imported,    *)
(* "serving" once all are, "crashed" when an import raised, and error says  *)
(* where and what; page is the section rendered last and what it returned;  *)
(* the other variables are the module-level names of the code.              *)
(***************************************************************************)
EXTENDS Integers, Sequences, FiniteSets, TLC

VARIABLES fs, pc, error, resume_path, ABOUT_ME_DATA, SKILLS_DATA,
          EDUCATION_DATA, WORK_EXPERIENCE_DATA, CONTACT_DATA,
          STATIC_CONTACT_LINKS, PROJECTS_DATA_LIST, page

vars == <<fs, pc, error, resume_path, ABOUT_ME_DATA, SKILLS_DATA,
          EDUCATION_DATA, WORK_EXPERIENCE_DATA, CONTACT_DATA,
          STATIC_CONTACT_LINKS, PROJECTS_DATA_LIST, page>>

----------------------------------------------------------------------------
(* Bounds of the explored inputs.                                           *)

\* longest asset filename, in characters
MaxNameLen == 2
\* longest education `details` string, in characters
MaxDetailLen == 3
\* longest JSON array of records
MaxRecords == 3
\* largest team size of a project
MaxTeamSize == 11

----------------------------------------------------------------------------
(* Python values and strings.                                               *)

Ok(v) == [exc |-> "none", val |-> v]
Raise(e) == [exc |-> e]

Has(d, k) == k \in DOMAIN d
Get(d, k, default) == IF k \in DOMAIN d THEN d[k] ELSE default
Drop(d, k) == [x \in DOMAIN d \ {k} |-> d[x]]
Put(d, k, v) == [x \in DOMAIN d \cup {k} |-> IF x = k THEN v ELSE d[x]]

\* all sequences over S of length at most n
SeqsUpTo(S, n) == UNION {[1..k -> S] : k \in 0..n}

\* "/" + s  and  f"/{s}"
Slash(s) == <<"/">> \o s

RECURSIVE lstrip(_, _)
\* str.lstrip(c) for a one-character c
lstrip(s, c) == IF s # <<>> /\ Head(s) = c THEN lstrip(Tail(s), c) ELSE s

\* the characters an asset filename is drawn from, and the filenames explored
NameChar == {"/", "a"}
FileNames == SeqsUpTo(NameChar, MaxNameLen)

----------------------------------------------------------------------------
(* JSON values, as json.load returns them.                                  *)

JNull == [t |-> "null"]
JNum == [t |-> "num"]
JStr(text) == [t |-> "str", text |-> text]
JArr(items) == [t |-> "arr", items |-> items]
JObj(o) == [t |-> "obj", o |-> o]

\* the key names whose text occurs inside an opaque JSON string
KeysIn(text) ==
    CASE text = "standard_bio" -> {"standard_bio"}
      [] text = "personal_insights" -> {"personal_insights"}
      [] text = "my_selfie" -> {"my_selfie"}
      [] text = "footnote" -> {"footnote"}
      [] text = "standard_bio personal_insights my_selfie" ->
            {"standard_bio", "personal_insights", "my_selfie"}
      [] text = "standard_bio personal_insights my_selfie footnote" ->
            {"standard_bio", "personal_insights", "my_selfie", "footnote"}
      [] OTHER -> {}

\* Python's `k in data`: a key of a dict, an element of a list, a substring
\* of a str; TypeError for None and for a number
In(k, data) ==
    CASE data.t = "obj" -> Ok(k \in DOMAIN data.o)
      [] data.t = "arr" ->
            Ok(\E i \in 1..Len(data.items) :
                   data.items[i].t = "str" /\ data.items[i].text = k)
      [] data.t = "str" -> Ok(k \in KeysIn(data.text))
      [] OTHER -> Raise("TypeError")

----------------------------------------------------------------------------
(* The file system.  A path is the sequence of its components; a path built *)
(* on os.getcwd() names the same file as the same path taken relatively.    *)

Absent == [kind |-> "absent"]
\* present, but open() fails: permission denied
NoPermission == [kind |-> "noperm"]
\* present and opened, but its bytes are not valid text
BadBytes == [kind |-> "badbytes"]
\* present and read, but its text is not JSON
Garbage == [kind |-> "garbage"]
Json(v) == [kind |-> "json", val |-> v]

CWD == "<cwd>"
ABOUT_PATH == <<"assets", "about_me_data.json">>
ABOUT_FALLBACK_PATH == <<"about_me_data.json">>
CONTACT_PATH == <<"assets", "contact_me.json">>
EDUCATION_PATH == <<"assets", "education_data.json">>
PROJECTS_PATH == <<"assets", "projects_data.json">>
WORK_PATH == <<"assets", "work_experience.json">>
SKILLS_PATH == <<"assets", "skills_data.json">>

Files == {ABOUT_PATH, ABOUT_FALLBACK_PATH, CONTACT_PATH, EDUCATION_PATH,
          PROJECTS_PATH, WORK_PATH, SKILLS_PATH}

\* os.path.join(os.getcwd(), ...): the file a path names
realpath(path) == IF path # <<>> /\ Head(path) = CWD THEN Tail(path) ELSE path

exists(fsys, path) == fsys[realpath(path)].kind # "absent"

\* with open(path, 'r') as f: json.load(f)
json_load(fsys, path) ==
    LET c == fsys[realpath(path)]
    IN  CASE c.kind = "absent" -> Raise("FileNotFoundError")
          [] c.kind = "noperm" -> Raise("PermissionError")
          [] c.kind = "badbytes" -> Raise("UnicodeDecodeError")
          [] c.kind = "garbage" -> Raise("JSONDecodeError")
          [] OTHER -> Ok(c.val)

----------------------------------------------------------------------------
(* try / except: which except clause catches which exception.               *)

\* the builtin exception classes an exception belongs to
Classes(exc) ==
    CASE exc = "FileNotFoundError" -> {"FileNotFoundError", "OSError", "Exception"}
      [] exc = "PermissionError" -> {"PermissionError", "OSError", "Exception"}
      [] exc = "JSONDecodeError" -> {"JSONDecodeError", "ValueError", "Exception"}
      [] exc = "UnicodeDecodeError" -> {"UnicodeDecodeError", "ValueError", "Exception"}
      [] OTHER -> {exc, "Exception"}

\* `except cls:` catches exc
Catches(cls, exc) == cls \in Classes(exc)

----------------------------------------------------------------------------
(* About: app/pages/about_page.py                                           *)

EmptyDict == [x \in {} |-> x]

AboutDefault ==
    JObj([standard_bio |-> "", personal_insights |-> <<>>,
          my_selfie |-> FALSE, footnote |-> EmptyDict])

\* the body of the try block once json.load has returned `data`
about_check(data) ==
    LET bio == In("standard_bio", data)
        ins == In("personal_insights", data)
        sel == In("my_selfie", data)
        foot == In("footnote", data)
    IN  IF bio.exc # "none" THEN bio
        ELSE IF ~bio.val \/ ~ins.val \/ ~sel.val THEN Ok(AboutDefault)
        ELSE IF ~foot.val
             THEN \* data['footnote'] = {}
                  IF data.t = "obj"
                  THEN Ok(JObj(Put(data.o, "footnote", EmptyDict)))
                  ELSE Raise("TypeError")
             ELSE Ok(data)

\* a loader that prefers the file at the fallback path
load_about_me_data_secondary_first(fsys) ==
    LET file_path == IF exists(fsys, ABOUT_FALLBACK_PATH)
                     THEN ABOUT_FALLBACK_PATH ELSE ABOUT_PATH
        loaded == json_load(fsys, file_path)
        body == IF loaded.exc # "none" THEN loaded ELSE about_check(loaded.val)
    IN  IF body.exc = "none" THEN body ELSE Ok(AboutDefault)

\* a loader that goes on to the fallback path when the primary file is corrupt
load_about_me_data_retry(fsys) ==
    LET first == json_load(fsys, ABOUT_PATH)
        loaded == IF first.exc # "none"
                  THEN json_load(fsys, ABOUT_FALLBACK_PATH) ELSE first
        body == IF loaded.exc # "none" THEN loaded ELSE about_check(loaded.val)
    IN  IF body.exc = "none" THEN body ELSE Ok(AboutDefault)

load_about_me_data(fsys) ==
    LET file_path == IF ~exists(fsys, ABOUT_PATH)
                     THEN ABOUT_FALLBACK_PATH ELSE ABOUT_PATH
        loaded == json_load(fsys, file_path)
        body == IF loaded.exc # "none" THEN loaded ELSE about_check(loaded.val)
    IN  IF body.exc = "none" THEN body
        ELSE IF Catches("FileNotFoundError", body.exc) THEN Ok(AboutDefault)
        ELSE IF Catches("Exception", body.exc) THEN Ok(AboutDefault)
        ELSE body

----------------------------------------------------------------------------
(* Education, Work, Skills loaders.                                         *)

EmptyList == JArr(<<>>)

load_education_data(fsys) ==
    LET file_path == IF ~exists(fsys, EDUCATION_PATH)
                     THEN <<CWD>> \o EDUCATION_PATH ELSE EDUCATION_PATH
        body == json_load(fsys, file_path)
    IN  IF body.exc = "none" THEN body
        ELSE IF Catches("Exception", body.exc) THEN Ok(EmptyList)
        ELSE body

load_work_data(fsys) ==
    LET body == json_load(fsys, WORK_PATH)
    IN  IF body.exc = "none" THEN body
        ELSE IF Catches("FileNotFoundError", body.exc) THEN Ok(EmptyList)
        ELSE IF Catches("JSONDecodeError", body.exc) THEN Ok(EmptyList)
        ELSE body

load_skills_data(fsys) ==
    LET body == json_load(fsys, SKILLS_PATH)
    IN  IF body.exc = "none" THEN body
        ELSE IF Catches("Exception", body.exc) THEN Ok(EmptyList)
        ELSE body

----------------------------------------------------------------------------
(* Projects: app/pages/projects_page.py                                     *)

\* typing.Optional
None == [some |-> FALSE]
Some(v) == [some |-> TRUE, v |-> v]
Optional(d, k) == IF k \in DOMAIN d THEN Some(d[k]) ELSE None

DEFAULT_COLOR == "indigo"

ProjectRequired == {"title", "short_description", "full_description",
                    "teamsize", "href", "languages_used"}

\* ProjectData(**d) for a dict d: pydantic validation and defaulting
ProjectData(d) ==
    IF ~(ProjectRequired \subseteq DOMAIN d) THEN Raise("ValidationError")
    ELSE Ok([title |-> d["title"],
             short_description |-> d["short_description"],
             full_description |-> d["full_description"],
             teamsize |-> d["teamsize"],
             href |-> d["href"],
             languages_used |-> d["languages_used"],
             extra_href |-> Optional(d, "extra_href"),
             extra_href_display_name |-> Optional(d, "extra_href_display_name"),
             image |-> Optional(d, "image"),
             color |-> Get(d, "color", DEFAULT_COLOR),
             tech_stack |-> Get(d, "tech_stack", <<>>)])

\* the values a for loop over a JSON value visits: the items of a list, the
\* keys of a dict, the characters of a str (each a str)
Iter(v) ==
    CASE v.t = "arr" -> v.items
      [] v.t = "obj" -> IF DOMAIN v.o = {} THEN <<>> ELSE <<JStr("key")>>
      [] v.t = "str" -> IF v.text = "" THEN <<>> ELSE <<JStr("char")>>
      [] OTHER -> <<>>

RECURSIVE process_projects_as_validated(_, _)
\* a validation loop that leaves tech_stack as the record supplied it
process_projects_as_validated(items, processed_projects) ==
    IF items = <<>> THEN Ok(processed_projects)
    ELSE LET project_dict == Head(items)
             project == IF project_dict.t = "obj"
                        THEN ProjectData(project_dict.o)
                        ELSE Raise("TypeError")
         IN  IF project.exc = "none"
             THEN process_projects_as_validated(Tail(items),
                      Append(processed_projects, project.val))
             ELSE IF project_dict.t = "obj"
                  THEN process_projects_as_validated(Tail(items),
                                                     processed_projects)
                  ELSE Raise("AttributeError")

RECURSIVE process_projects(_, _)
\* step 2 of load_projects_data: the validation loop
process_projects(items, processed_projects) ==
    IF items = <<>> THEN Ok(processed_projects)
    ELSE LET project_dict == Head(items)
             project == IF project_dict.t = "obj"
                        THEN ProjectData(project_dict.o)
                        ELSE Raise("TypeError")
         IN  IF project.exc = "none"
             THEN process_projects(Tail(items),
                      Append(processed_projects,
                             [project.val EXCEPT
                                 !.tech_stack = project.val.languages_used]))
             ELSE \* except Exception: print(project_dict.get('title', ...))
                  IF project_dict.t = "obj"
                  THEN process_projects(Tail(items), processed_projects)
                  ELSE Raise("AttributeError")

load_projects_data(fsys) ==
    LET file_path == <<CWD>> \o PROJECTS_PATH
        loaded == json_load(fsys, file_path)
        body == IF exists(fsys, file_path)
                THEN IF loaded.exc # "none" THEN loaded
                     \* print(f"... {len(projects_dicts)} ...")
                     ELSE IF loaded.val.t \in {"arr", "obj", "str"}
                          THEN loaded
                          ELSE Raise("TypeError")
                ELSE Ok(EmptyList)
    IN  IF body.exc = "none" THEN process_projects(Iter(body.val), <<>>)
        ELSE IF Catches("JSONDecodeError", body.exc) THEN Ok(<<>>)
        ELSE IF Catches("Exception", body.exc) THEN Ok(<<>>)
        ELSE body

----------------------------------------------------------------------------
(* Contact: app/pages/contact_me_page.py, and the navbar's resume path      *)

\* reflex's LiteralAccentColor
LiteralAccentColor ==
    {"tomato", "red", "ruby", "crimson", "pink", "plum", "purple", "violet",
     "iris", "indigo", "blue", "cyan", "teal", "jade", "green", "grass",
     "brown", "orange", "sky", "mint", "lime", "yellow", "amber", "gold",
     "bronze", "gray"}

ContactLinkRequired == {"name", "icon", "href", "color"}

\* whether a JSON value validates as a ContactLink
IsContactLink(v) ==
    /\ v.t = "obj"
    /\ ContactLinkRequired \subseteq DOMAIN v.o
    /\ v.o["color"] \in LiteralAccentColor

ContactLink(v) ==
    [name |-> v.o["name"], icon |-> v.o["icon"], href |-> v.o["href"],
     color |-> v.o["color"]]

ContactRequired == {"profile_pic", "resume", "qrcode", "links"}

DefaultName == "Prabhat Racherla"

\* a validation that drops the link entries that do not validate
ContactDataLenient(d) ==
    IF ~(ContactRequired \subseteq DOMAIN d) THEN Raise("ValidationError")
    ELSE LET valid == SelectSeq(d["links"], IsContactLink)
         IN  Ok([profile_pic |-> d["profile_pic"],
                 resume |-> d["resume"],
                 qrcode |-> d["qrcode"],
                 links |-> [i \in 1..Len(valid) |-> ContactLink(valid[i])],
                 name |-> Get(d, "name", DefaultName)])

\* ContactData(**d) for a dict d: pydantic validation and defaulting
ContactData(d) ==
    IF ~(ContactRequired \subseteq DOMAIN d) THEN Raise("ValidationError")
    ELSE IF \E i \in 1..Len(d["links"]) : ~IsContactLink(d["links"][i])
    THEN Raise("ValidationError")
    ELSE Ok([profile_pic |-> d["profile_pic"],
             resume |-> d["resume"],
             qrcode |-> d["qrcode"],
             links |-> [i \in 1..Len(d["links"]) |-> ContactLink(d["links"][i])],
             name |-> Get(d, "name", DefaultName)])

\* a fallback record that names a placeholder picture
ContactFallbackPlaceholder ==
    [profile_pic |-> <<"a">>, resume |-> <<>>, qrcode |-> <<>>,
     links |-> <<>>, name |-> "Prabhat Racherla"]

\* ContactData(profile_pic="", resume="", qrcode="", links=[])
ContactFallback ==
    ContactData([profile_pic |-> <<>>, resume |-> <<>>, qrcode |-> <<>>,
                 links |-> <<>>]).val

\* data = json.load(f); return ContactData(**data)
contact_parse(loaded) ==
    IF loaded.exc # "none" THEN loaded
    ELSE IF loaded.val.t # "obj" THEN Raise("TypeError")
    ELSE ContactData(loaded.val.o)

load_contact_data(fsys) ==
    LET file_path == <<CWD>> \o CONTACT_PATH
        body == IF exists(fsys, file_path)
                THEN contact_parse(json_load(fsys, file_path))
                ELSE contact_parse(json_load(fsys, CONTACT_PATH))
    IN  IF body.exc = "none" THEN body
        ELSE IF Catches("Exception", body.exc) THEN Ok(ContactFallback)
        ELSE body

\* app/navbar.py
get_resume_path(fsys) ==
    LET loaded == json_load(fsys, CONTACT_PATH)
        filename == Get(loaded.val.o, "resume", <<>>)
        body == IF exists(fsys, CONTACT_PATH)
                THEN IF loaded.exc # "none" THEN loaded
                     ELSE IF loaded.val.t # "obj" THEN Raise("AttributeError")
                     ELSE IF filename # <<>>
                          THEN Ok(Slash(lstrip(filename, "/")))
                          ELSE Ok(<<>>)
                ELSE Ok(<<>>)
    IN  IF body.exc = "none" THEN body
        ELSE IF Catches("Exception", body.exc) THEN Ok(<<>>)
        ELSE body

----------------------------------------------------------------------------
(* Access to a loaded value, and collecting the results of a comprehension. *)

\* v[k] on a Python value
Subscript(v, k) ==
    IF v.t = "obj"
    THEN IF k \in DOMAIN v.o THEN Ok(v.o[k]) ELSE Raise("KeyError")
    ELSE Raise("TypeError")

\* v.get(k, default) on a Python value
DictGet(v, k, default) ==
    IF v.t = "obj" THEN Ok(Get(v.o, k, default)) ELSE Raise("AttributeError")

\* d[k] on a plain dict
Item(d, k) == IF k \in DOMAIN d THEN Ok(d[k]) ELSE Raise("KeyError")

\* what JavaScript renders for the missing key of an object
Undefined == "undefined"

\* v[k] on the Var that rx.foreach hands to its render function: it compiles
\* to a JavaScript property lookup and raises nothing
VarItem(v, k) == IF v.t = "obj" /\ k \in DOMAIN v.o THEN v.o[k] ELSE Undefined

\* v.get(k, default) on such a Var
VarGet(v, k, default) ==
    IF v.t = "obj" /\ k \in DOMAIN v.o THEN v.o[k] ELSE default

\* [f(x) for x in xs], given the results f(x): the first exception propagates
Collect(rs) ==
    IF \E i \in 1..Len(rs) : rs[i].exc # "none"
    THEN Raise(rs[CHOOSE i \in 1..Len(rs) :
                      /\ rs[i].exc # "none"
                      /\ \A j \in 1..(i - 1) : rs[j].exc = "none"].exc)
    ELSE Ok([i \in 1..Len(rs) |-> rs[i].val])

Box == [kind |-> "box"]

----------------------------------------------------------------------------
(* About mappers.                                                           *)

PROFILE_PIC_PATH == "/my_profile_pic.jpg"

\* a top section that shows the picture whatever the biography
top_bio_section_pictured(about) ==
    LET bio == Subscript(about, "standard_bio")
        selfie == DictGet(about, "my_selfie", FALSE)
    IN  IF bio.exc # "none" THEN bio
        ELSE IF selfie.exc # "none" THEN selfie
        ELSE Ok([kind |-> "top_bio", text |-> bio.val,
                 image |-> IF selfie.val THEN Some(PROFILE_PIC_PATH) ELSE None])

top_bio_section(about) ==
    LET bio == Subscript(about, "standard_bio")
        selfie == DictGet(about, "my_selfie", FALSE)
    IN  IF bio.exc # "none" THEN bio
        ELSE IF bio.val = "" THEN Ok(Box)
        ELSE IF selfie.exc # "none" THEN selfie
        ELSE Ok([kind |-> "top_bio", text |-> bio.val,
                 image |-> IF selfie.val THEN Some(PROFILE_PIC_PATH) ELSE None])

personal_insight_card(data) ==
    [kind |-> "insight_card", title |-> VarItem(data, "title"),
     content |-> VarItem(data, "content")]

bottom_insights_section(about) ==
    LET ins == Subscript(about, "personal_insights")
    IN  IF ins.exc # "none" THEN ins
        ELSE IF ins.val = <<>> THEN Ok(Box)
        ELSE Ok([kind |-> "insights",
                 cards |-> [i \in 1..Len(ins.val) |->
                               personal_insight_card(ins.val[i])]])

footnote_section(about) ==
    LET footnote_data == DictGet(about, "footnote", EmptyDict)
        content == Get(footnote_data.val, "content", "")
        ai_meme == Item(footnote_data.val, "ai_meme")
    IN  IF footnote_data.exc # "none" THEN footnote_data
        ELSE IF DOMAIN footnote_data.val = {} \/ content = "" THEN Ok(Box)
        \* src=f'/{footnote_data["ai_meme"]}' is evaluated before rx.cond
        \* is called
        ELSE IF ai_meme.exc # "none" THEN ai_meme
        ELSE Ok([kind |-> "footnote", text |-> content,
                 image |-> IF ai_meme.val # <<>>
                           THEN Some(Slash(ai_meme.val)) ELSE None])

about_me_section(about) ==
    LET top == top_bio_section(about)
        bottom == bottom_insights_section(about)
        foot == footnote_section(about)
    IN  IF top.exc # "none" THEN top
        ELSE IF bottom.exc # "none" THEN bottom
        ELSE IF foot.exc # "none" THEN foot
        ELSE Ok([top |-> top.val, insights |-> bottom.val, footnote |-> foot.val])

----------------------------------------------------------------------------
(* Education mappers.                                                       *)

\* rx.cond(c, a, b) on a string condition
cond(c, a, b) == IF c # <<>> THEN a ELSE b

DESKTOP_GPA_LABEL == <<"G", "P", "A", ":", " ">>
MOBILE_GPA_LABEL == <<"G", "P", "A", ":">>

\* the text of the badge
gpa_badge(gpa_detail_string) == gpa_detail_string

education_card(edu) ==
    LET logo_filename == VarGet(edu, "logo", <<>>)
        campus_pic_filename == VarGet(edu, "campus_pic", <<>>)
        card_href == VarGet(edu, "href", "#")
        gpa_detail_string == VarGet(edu, "details", <<>>)
        color_scheme == VarGet(edu, "color", "blue")
        full_logo_path == cond(logo_filename, Slash(logo_filename), <<>>)
        full_campus_pic_path ==
            cond(campus_pic_filename, Slash(campus_pic_filename), <<>>)
    IN  [kind |-> "education_card",
         institution |-> VarItem(edu, "institution"),
         degree |-> VarItem(edu, "degree"),
         location |-> VarGet(edu, "location", ""),
         date_range |-> VarItem(edu, "date_range"),
         href |-> card_href,
         color |-> color_scheme,
         \* linked_logo: the image, or the grey placeholder box
         logo |-> IF full_logo_path # <<>> THEN Some(full_logo_path) ELSE None,
         campus_image |-> IF full_campus_pic_path # <<>>
                          THEN Some(full_campus_pic_path) ELSE None,
         desktop_gpa_label |-> DESKTOP_GPA_LABEL,
         mobile_gpa_label |-> MOBILE_GPA_LABEL,
         gpa_value |-> gpa_badge(gpa_detail_string)]

RECURSIVE Distinct(_)
\* a list without the elements equal to their predecessor
Distinct(l) ==
    IF Len(l) <= 1 THEN l
    ELSE IF l[1] = l[2] THEN Distinct(Tail(l))
    ELSE <<l[1]>> \o Distinct(Tail(l))

\* a grid that skips a card equal to the one before it
education_distinct(data) ==
    Ok([i \in 1..Len(Distinct(data.items)) |->
           education_card(Distinct(data.items)[i])])

\* rx.foreach(EDUCATION_DATA, ...) inside the grid, for a JSON array
education(data) ==
    Ok([i \in 1..Len(data.items) |-> education_card(data.items[i])])

----------------------------------------------------------------------------
(* Work mappers: plain Python comprehensions over the loaded list.          *)

project_details(project) ==
    LET title == Item(project, "title")
        description == Item(project, "description")
        technology_stack == Item(project, "technology_stack")
    IN  IF title.exc # "none" THEN title
        ELSE IF description.exc # "none" THEN description
        ELSE IF technology_stack.exc # "none" THEN technology_stack
        ELSE Ok([kind |-> "project", title |-> title.val,
                 description |-> description.val,
                 technology_stack |-> technology_stack.val])

\* a role whose projects are listed newest first
role_section_reversed(role) ==
    LET title == Item(role, "title")
        date_range == Item(role, "date_range")
        projects == Item(role, "projects")
        n == Len(projects.val)
        details == Collect([i \in 1..n |->
                               project_details(projects.val[n + 1 - i])])
    IN  IF title.exc # "none" THEN title
        ELSE IF date_range.exc # "none" THEN date_range
        ELSE IF projects.exc # "none" THEN projects
        ELSE IF details.exc # "none" THEN details
        ELSE Ok([kind |-> "role", title |-> title.val,
                 date_range |-> date_range.val, projects |-> details.val])

role_section(role) ==
    LET title == Item(role, "title")
        date_range == Item(role, "date_range")
        projects == Item(role, "projects")
        details == Collect([i \in 1..Len(projects.val) |->
                               project_details(projects.val[i])])
    IN  IF title.exc # "none" THEN title
        ELSE IF date_range.exc # "none" THEN date_range
        ELSE IF projects.exc # "none" THEN projects
        ELSE IF details.exc # "none" THEN details
        ELSE Ok([kind |-> "role", title |-> title.val,
                 date_range |-> date_range.val, projects |-> details.val])

company_section(company_data) ==
    LET full_company_name == Subscript(company_data, "company")
        display_name_to_use ==
            Get(company_data.o, "display_name", full_company_name.val)
        logo_filename == Optional(company_data.o, "logo")
        company_href == Get(company_data.o, "href", "#")
        color_scheme == Get(company_data.o, "color", "blue")
        full_logo_path == IF logo_filename.some /\ logo_filename.v # <<>>
                          THEN Some(Slash(logo_filename.v)) ELSE None
        roles == Subscript(company_data, "roles")
        sections == Collect([i \in 1..Len(roles.val) |->
                                role_section(roles.val[i])])
    IN  IF full_company_name.exc # "none" THEN full_company_name
        ELSE IF roles.exc # "none" THEN roles
        ELSE IF sections.exc # "none" THEN sections
        ELSE Ok([kind |-> "company", company |-> full_company_name.val,
                 display_name |-> display_name_to_use,
                 logo |-> full_logo_path, href |-> company_href,
                 color |-> color_scheme, roles |-> sections.val])

\* a section that shows its first company apart from the others
work_first_company(data) ==
    IF data.t \notin {"arr", "obj", "str"} THEN Raise("TypeError")
    ELSE IF Len(Iter(data)) = 0 THEN Raise("IndexError")
    ELSE Collect([i \in 1..Len(Iter(data)) |-> company_section(Iter(data)[i])])

\* [company_section(data) for data in WORK_EXPERIENCE_DATA]
work(data) ==
    IF data.t \notin {"arr", "obj", "str"} THEN Raise("TypeError")
    ELSE Collect([i \in 1..Len(Iter(data)) |-> company_section(Iter(data)[i])])

----------------------------------------------------------------------------
(* Projects mappers: rx.foreach over ProjectState.projects_data.            *)

\* rx.cond(c, ...) on an Optional[str] whose text is a character sequence
IsSet(opt) == opt.some /\ opt.v # <<>>
\* the same for an Optional[str] whose text is opaque
IsSetText(opt) == opt.some /\ opt.v # ""

\* one decimal digit as text
Digit(d) ==
    CASE d = 0 -> "0" [] d = 1 -> "1" [] d = 2 -> "2" [] d = 3 -> "3"
      [] d = 4 -> "4" [] d = 5 -> "5" [] d = 6 -> "6" [] d = 7 -> "7"
      [] d = 8 -> "8" [] OTHER -> "9"

RECURSIVE to_str(_)
\* project.teamsize.to(str): the decimal digits of a natural number
to_str(n) ==
    IF n < 10 THEN <<Digit(n)>> ELSE to_str(n \div 10) \o <<Digit(n % 10)>>

\* a badge that counts a lone author as a team
teamsize_badge_team_of_one(project) ==
    <<"Team of ">> \o to_str(project.teamsize)

\* the text of the badge: a literal, or a prefix followed by digits
teamsize_badge(project) ==
    IF project.teamsize = 1 THEN <<"Individual">>
    ELSE <<"Team of ">> \o to_str(project.teamsize)

\* a dialog whose extra link is always labelled as a research paper
project_dialog_fixed_label(project) ==
    [title |-> project.title,
     full_description |-> project.full_description,
     href |-> project.href,
     project_image |-> IF IsSet(project.image) THEN Some(project.image.v)
                       ELSE None,
     research_paper_link_section |->
        IF IsSetText(project.extra_href)
        THEN Some([label |-> <<"Research Paper: ">>,
                   href |-> project.extra_href.v])
        ELSE None]

project_dialog(project) ==
    [title |-> project.title,
     full_description |-> project.full_description,
     href |-> project.href,
     \* src=project.image.to(str)
     project_image |-> IF IsSet(project.image) THEN Some(project.image.v)
                       ELSE None,
     research_paper_link_section |->
        IF IsSetText(project.extra_href)
        THEN Some([label |-> IF IsSetText(project.extra_href_display_name)
                             THEN <<project.extra_href_display_name.v, ": ">>
                             ELSE <<"Research Paper: ">>,
                   href |-> project.extra_href.v])
        ELSE None]

project_card(project) ==
    [kind |-> "project_card", title |-> project.title,
     short_description |-> project.short_description,
     teamsize_badge |-> teamsize_badge(project),
     tech_stack |-> project.tech_stack,
     href |-> project.href, color |-> project.color,
     dialog |-> project_dialog(project)]

projects(projects_data) ==
    Ok([i \in 1..Len(projects_data) |-> project_card(projects_data[i])])

----------------------------------------------------------------------------
(* Contact mappers.                                                         *)

get_profile_image_path(contact) ==
    IF contact.profile_pic # <<>> THEN Slash(contact.profile_pic) ELSE <<>>

get_qrcode_image_path(contact) ==
    IF contact.qrcode # <<>> THEN Slash(contact.qrcode) ELSE <<>>

contact_link_item(link) ==
    [kind |-> "contact_link", text |-> link.href, href |-> link.href,
     icon |-> link.icon, color |-> link.color]

\* the list comprehension run at import
static_contact_links(contact) ==
    [i \in 1..Len(contact.links) |-> contact_link_item(contact.links[i])]

qrcode_section(contact) ==
    LET qrcode_path == get_qrcode_image_path(contact)
    IN  IF qrcode_path = <<>> THEN Box
        ELSE [kind |-> "qrcode", src |-> qrcode_path]

profile_image_component(contact) ==
    LET profile_path == get_profile_image_path(contact)
    IN  IF profile_path = <<>> THEN Box
        ELSE [kind |-> "profile_image", src |-> profile_path]

\* what the desktop and the mobile layout both hold
contact_me(contact, links) ==
    Ok([links |-> links, qrcode |-> qrcode_section(contact),
        profile |-> profile_image_component(contact)])

----------------------------------------------------------------------------
(* The e-vCard: app/pages/e_vcard.py                                        *)

\* record.name on a ContactData: only the declared fields are attributes
GetAttr(record, name) ==
    IF name \in DOMAIN record THEN Ok(record[name]) ELSE Raise("AttributeError")

get_vcf_download_path(contact) ==
    LET download_vcf == GetAttr(contact, "download_vcf")
    IN  IF download_vcf.exc # "none" THEN download_vcf
        ELSE IF download_vcf.val # <<>>
             THEN Ok(Slash(lstrip(download_vcf.val, "/")))
             ELSE Ok(<<>>)

\* next((link for link in CONTACT_DATA.links if link.name == name), None)
find_link(links, name) ==
    LET hits == {i \in 1..Len(links) : links[i].name = name}
    IN  IF hits = {} THEN None
        ELSE Some(links[CHOOSE i \in hits : \A j \in hits : i <= j])

evcard_page(contact) ==
    LET full_name == GetAttr(contact, "full_name")
        phone_number == GetAttr(contact, "phone_number")
        vcf_image == GetAttr(contact, "vcf_image")
        links == GetAttr(contact, "links")
        email_link == find_link(links.val, "Email")
        website_link == find_link(links.val, "Personal Website")
        href == get_vcf_download_path(contact)
    IN  IF full_name.exc # "none" THEN full_name
        ELSE IF phone_number.exc # "none" THEN phone_number
        ELSE IF vcf_image.exc # "none" THEN vcf_image
        ELSE IF links.exc # "none" THEN links
        ELSE IF href.exc # "none" THEN href
        ELSE Ok([kind |-> "evcard", user |-> full_name.val,
                 phone |-> phone_number.val,
                 mail |-> IF email_link.some
                          THEN Some(email_link.v.href) ELSE None,
                 globe |-> IF website_link.some
                           THEN Some(website_link.v.href) ELSE None,
                 download |-> href.val,
                 image |-> Slash(vcf_image.val)])

----------------------------------------------------------------------------
(* The navbar: app/navbar.py                                                *)

UpperCase == <<"A", "B", "C", "D", "E", "F", "G", "H", "I", "J", "K", "L", "M",
               "N", "O", "P", "Q", "R", "S", "T", "U", "V", "W", "X", "Y", "Z">>
LowerCase == <<"a", "b", "c", "d", "e", "f", "g", "h", "i", "j", "k", "l", "m",
               "n", "o", "p", "q", "r", "s", "t", "u", "v", "w", "x", "y", "z">>

\* str.lower()
lower(text) ==
    [i \in 1..Len(text) |->
        IF \E j \in 1..Len(UpperCase) : UpperCase[j] = text[i]
        THEN LowerCase[CHOOSE j \in 1..Len(UpperCase) : UpperCase[j] = text[i]]
        ELSE text[i]]

\* str.replace(c, '') for a one-character c
remove(text, c) == SelectSeq(text, LAMBDA x : x # c)

\* the labels of the navigation items, in the order of the navbar
NavItems ==
    << <<"W", "o", "r", "k">>,
       <<"E", "d", "u", "c", "a", "t", "i", "o", "n">>,
       <<"S", "k", "i", "l", "l", "s">>,
       <<"P", "r", "o", "j", "e", "c", "t", "s">>,
       <<"C", "o", "n", "t", "a", "c", "t", "-", "M", "e">> >>

get_nav_link_href(text) ==
    IF text = <<"C", "o", "n", "t", "a", "c", "t", "-", "M", "e">>
    THEN <<"/", "c", "o", "n", "t", "a", "c", "t">>
    ELSE Slash(remove(lower(text), "-"))

navbar_icons_item(text) ==
    [kind |-> "nav_link", text |-> text, href |-> get_nav_link_href(text)]

navbar_icons_menu_item(text) ==
    [kind |-> "menu_item", text |-> text, href |-> get_nav_link_href(text)]

\* an icon that links to the resume path whatever it is
resume_download_icon_linked(path) ==
    [kind |-> "resume_icon", tooltip |-> "Download Me", href |-> path,
     cursor |-> "pointer"]

\* the printer icon, given the value of NavbarState.resume_path
resume_download_icon(path) ==
    LET is_available == path # <<>>
    IN  [kind |-> "resume_icon",
         tooltip |-> IF is_available THEN "Download Me"
                     ELSE "Resume link not available",
         href |-> IF is_available THEN path ELSE <<"#">>,
         cursor |-> IF is_available THEN "pointer" ELSE "not-allowed"]

\* the name link, the resume icon, and the items of the desktop row and of
\* the mobile menu
navbar_icons(path) ==
    Ok([kind |-> "navbar",
        name_href |-> <<"/", "a", "b", "o", "u", "t">>,
        resume |-> resume_download_icon(path),
        items |-> [i \in 1..Len(NavItems) |-> navbar_icons_item(NavItems[i])],
        menu |-> [i \in 1..Len(NavItems) |->
                     navbar_icons_menu_item(NavItems[i])]])

----------------------------------------------------------------------------
(* The contents explored for each file.                                     *)

Broken == {Absent, NoPermission, BadBytes, Garbage}

\* the restriction of a dict to some of its keys
Restrict(d, keys) == [k \in DOMAIN d \cap keys |-> d[k]]

\* About
Insight(title) == JObj([title |-> title, content |-> "text"])
InsightLists == SeqsUpTo({Insight("i1"), Insight("i2")}, MaxRecords)
Footnotes ==
    {EmptyDict}
    \cup {[content |-> c] : c \in {"", "note"}}
    \cup {[ai_meme |-> f] : f \in FileNames}
    \cup {[content |-> c, ai_meme |-> f] : c \in {"", "note"}, f \in FileNames}
AboutSample ==
    [standard_bio |-> "bio", personal_insights |-> <<Insight("i1"), Insight("i2")>>,
     my_selfie |-> TRUE, footnote |-> [content |-> "note", ai_meme |-> <<"a">>]]
AboutKeys == {"standard_bio", "personal_insights", "my_selfie", "footnote"}
AboutValues ==
    {JObj(Restrict(AboutSample, keys)) : keys \in SUBSET AboutKeys}
    \cup {JObj([AboutSample EXCEPT !.standard_bio = b, !.my_selfie = m,
                                   !.personal_insights = l]) :
             b \in {"", "bio"}, m \in BOOLEAN, l \in InsightLists}
    \cup {JObj([AboutSample EXCEPT !.footnote = f]) : f \in Footnotes}
    \cup {JNull, JNum, JStr("hello"),
          JStr("standard_bio personal_insights my_selfie"),
          JStr("standard_bio personal_insights my_selfie footnote"),
          JArr(<<>>),
          JArr(<<JStr("standard_bio"), JStr("personal_insights"),
                 JStr("my_selfie")>>),
          JArr(<<JStr("standard_bio"), JStr("personal_insights"),
                 JStr("my_selfie"), JStr("footnote")>>)}
AboutContents == Broken \cup {Json(v) : v \in AboutValues}
AboutFallbackSample ==
    JObj([AboutSample EXCEPT !.standard_bio = "fallback bio"])
AboutFallbackContents == {Absent, Garbage, Json(AboutFallbackSample)}

\* Education
DetailChar == {":", " ", "G", "3"}
DetailStrings == SeqsUpTo(DetailChar, MaxDetailLen)
EducationIds == {"e1", "e2"}
EduFull(id) ==
    [institution |-> id, degree |-> "MS", location |-> "Tempe",
     details |-> <<"G", ":", "3">>, date_range |-> "2015-2017",
     color |-> "red", logo |-> <<"a">>, campus_pic |-> <<"a">>,
     href |-> "https://edu"]
EducationOptional == {"logo", "campus_pic", "href"}
EducationRequired == DOMAIN EduFull("e1") \ EducationOptional
EducationItems ==
    {JObj(EduFull(id)) : id \in EducationIds}
    \cup {JObj(Restrict(EduFull("e1"), EducationRequired)),
          JObj(Drop(EduFull("e1"), "institution"))}
EducationValues ==
    {JArr(l) : l \in SeqsUpTo(EducationItems, MaxRecords)}
    \cup {JArr(<<JObj([EduFull("e1") EXCEPT !.details = d])>>) :
             d \in DetailStrings}
    \cup {JArr(<<JObj([EduFull("e1") EXCEPT !.logo = f, !.campus_pic = g])>>) :
             f \in FileNames, g \in FileNames}
    \cup {JArr(<<JObj(Drop(EduFull("e1"), k))>>) : k \in DOMAIN EduFull("e1")}
    \cup {JArr(<<JObj(Restrict(EduFull("e1"), EducationRequired \cup keys))>>) :
             keys \in SUBSET EducationOptional}
EducationContents == Broken \cup {Json(v) : v \in EducationValues}

\* Work
WorkProject(title) ==
    [title |-> title, description |-> <<"d1", "d2">>,
     technology_stack |-> <<"python">>]
WorkRole(title) ==
    [title |-> title, date_range |-> "2020-2022",
     projects |-> <<WorkProject("p1"), WorkProject("p2")>>]
WorkFull(id) ==
    [company |-> id, display_name |-> "Co", logo |-> <<"a">>,
     href |-> "https://co", color |-> "green", roles |-> <<WorkRole("r1")>>]
WorkOptional == {"display_name", "logo"}
WorkRequired == DOMAIN WorkFull("c1") \ WorkOptional
WorkItems ==
    {JObj(WorkFull("c1")), JObj(WorkFull("c2")),
     JObj(Restrict(WorkFull("c1"), WorkRequired)),
     JObj(Drop(WorkFull("c1"), "company")),
     JObj(Drop(WorkFull("c1"), "roles"))}
WorkValues ==
    {JArr(l) : l \in SeqsUpTo(WorkItems, MaxRecords)}
    \cup {JArr(<<JObj([WorkFull("c1") EXCEPT !.logo = f])>>) : f \in FileNames}
    \cup {JArr(<<JObj(Drop(WorkFull("c1"), "color"))>>)}
    \cup {JArr(<<JObj(Restrict(WorkFull("c1"), WorkRequired \cup keys))>>) :
             keys \in SUBSET WorkOptional}
\* roles with two, one and no projects
RoleChoices ==
    {WorkRole("r1"),
     [WorkRole("r2") EXCEPT !.projects = <<WorkProject("p3")>>],
     [WorkRole("r3") EXCEPT !.projects = <<>>]}
WorkNestings ==
    {JArr(<<JObj([WorkFull("c1") EXCEPT !.roles = rs])>>) :
        rs \in SeqsUpTo(RoleChoices, MaxRecords)}
WorkContents == Broken \cup {Json(v) : v \in WorkValues \cup WorkNestings}


\* Projects
ProjFull(id) ==
    [title |-> id, short_description |-> "short",
     full_description |-> <<"f1", "f2">>, teamsize |-> 2,
     href |-> "https://src", languages_used |-> <<"python", "go">>,
     extra_href |-> "https://paper", extra_href_display_name |-> "Course",
     image |-> <<"a">>, color |-> "teal"]
ProjectOptional == DOMAIN ProjFull("p1") \ ProjectRequired
ProjectItems ==
    {JObj(ProjFull("p1")), JObj(ProjFull("p2")),
     JObj(Restrict(ProjFull("p1"), ProjectRequired)),
     JObj(Drop(ProjFull("p1"), "title")),
     JNum, JNull, JStr("text")}
ProjectsValues ==
    {JArr(l) : l \in SeqsUpTo(ProjectItems, MaxRecords)}
    \cup {JArr(<<JObj([ProjFull("p1") EXCEPT !.image = f])>>) : f \in FileNames}
    \cup {JArr(<<JObj([ProjFull("p1") EXCEPT !.teamsize = n])>>) :
             n \in 1..MaxTeamSize}
    \cup {JArr(<<JObj([ProjFull("p1") EXCEPT !.extra_href = h,
                                              !.extra_href_display_name = n])>>) :
             h \in {"", "https://paper"}, n \in {"", "Course"}}
    \cup {JArr(<<JObj(Restrict(ProjFull("p1"), ProjectRequired \cup keys))>>) :
             keys \in SUBSET ProjectOptional}
    \cup {JArr(<<JObj([k \in DOMAIN ProjFull("p1") \cup {"tech_stack"} |->
                          IF k = "tech_stack" THEN <<"rust">>
                          ELSE ProjFull("p1")[k]])>>)}
    \cup {JNull, JNum, JStr(""), JStr("text"), JObj(EmptyDict),
          JObj(ProjFull("p1"))}
ProjectsContents == Broken \cup {Json(v) : v \in ProjectsValues}

\* Contact
LinkOk(name) ==
    [name |-> name, icon |-> "mail", href |-> name, color |-> "blue"]
LinkItems ==
    {JObj(LinkOk("Email")), JObj(LinkOk("Personal Website")),
     JObj(Drop(LinkOk("Email"), "href")),
     JObj([LinkOk("Email") EXCEPT !.color = "rainbow"])}
ContactSample ==
    [profile_pic |-> <<"a">>, resume |-> <<"a">>, qrcode |-> <<"a">>,
     links |-> <<JObj(LinkOk("Email")), JObj(LinkOk("Personal Website"))>>,
     name |-> "Ada"]
\* a contact file that also supplies the keys the e-vCard reads
ContactVcard ==
    [profile_pic |-> <<"a">>, resume |-> <<"a">>, qrcode |-> <<"a">>,
     links |-> <<JObj(LinkOk("Email")), JObj(LinkOk("Personal Website"))>>,
     name |-> "Ada", full_name |-> "Ada Lovelace", phone_number |-> "555",
     vcf_image |-> <<"a">>, download_vcf |-> <<"a">>]
ContactValues ==
    {JObj(Restrict(ContactSample, keys)) : keys \in SUBSET DOMAIN ContactSample}
    \cup {JObj(ContactVcard)}
    \cup {JObj([ContactSample EXCEPT !.links = l]) :
             l \in SeqsUpTo(LinkItems, MaxRecords)}
    \cup {JObj([ContactSample EXCEPT !.profile_pic = f]) : f \in FileNames}
    \cup {JObj([ContactSample EXCEPT !.resume = f]) : f \in FileNames}
    \cup {JObj([ContactSample EXCEPT !.qrcode = f]) : f \in FileNames}
    \cup {JNull, JNum, JStr("text"), JArr(<<>>)}
ContactContents == Broken \cup {Json(v) : v \in ContactValues}

\* Skills
SkillsContents == Broken \cup {Json(EmptyList)}

\* every content file absent, and every content file holding its sample
NoFiles == [f \in Files |-> Absent]
SampleFiles ==
    [f \in Files |->
        CASE f = ABOUT_PATH -> Json(JObj(AboutSample))
          [] f = ABOUT_FALLBACK_PATH -> Absent
          [] f = CONTACT_PATH -> Json(JObj(ContactSample))
          [] f = EDUCATION_PATH -> Json(JArr(<<JObj(EduFull("e1"))>>))
          [] f = PROJECTS_PATH -> Json(JArr(<<JObj(ProjFull("p1"))>>))
          [] f = WORK_PATH -> Json(JArr(<<JObj(WorkFull("c1"))>>))
          [] OTHER -> Json(EmptyList)]

\* the file systems the program is started on: one section's files range over
\* the contents explored for it, the other sections' files are all absent or
\* all hold their sample
StartFiles ==
    UNION {
        {[base EXCEPT ![ABOUT_PATH] = a, ![ABOUT_FALLBACK_PATH] = b] :
            a \in AboutContents, b \in AboutFallbackContents}
        \cup {[base EXCEPT ![CONTACT_PATH] = c] : c \in ContactContents}
        \cup {[base EXCEPT ![EDUCATION_PATH] = c] : c \in EducationContents}
        \cup {[base EXCEPT ![PROJECTS_PATH] = c] : c \in ProjectsContents}
        \cup {[base EXCEPT ![WORK_PATH] = c] : c \in WorkContents}
        \cup {[base EXCEPT ![SKILLS_PATH] = c] : c \in SkillsContents}
        : base \in {NoFiles, SampleFiles}}

----------------------------------------------------------------------------
(* The program: the modules are imported in a fixed order, each running its *)
(* loader; an exception that leaves a loader ends the process.  Once every  *)
(* module is imported the sections are rendered.                            *)

\* the value of a module-level name before its module has run
Unbound == [t |-> "unbound"]
\* no element
NoContainer == [kind |-> "none"]
NoPage == [section |-> "none", container |-> NoContainer, result |-> Ok(<<>>)]

\* the routes registered with the app: app.add_page(index)
Routes == {<<"/">>}

\* the sections of the single page, in its order
SinglePageSections ==
    <<"about", "work", "education", "skills", "projects", "contact">>

\* the element a page function returns around its section's components: its
\* kind, its id, and whether it is wrapped in base_page
section_container(section) ==
    CASE section = "about" ->
            [kind |-> "vstack", id |-> None, base_page |-> TRUE]
      [] section = "work" ->
            [kind |-> "center", id |-> None, base_page |-> TRUE]
      [] section = "education" ->
            [kind |-> "center",
             id |-> Some(<<"e", "d", "u", "c", "a", "t", "i", "o", "n">>),
             base_page |-> FALSE]
      [] section = "skills" ->
            [kind |-> "center", id |-> Some(<<"s", "k", "i", "l", "l", "s">>),
             base_page |-> FALSE]
      [] section = "projects" ->
            [kind |-> "center", id |-> None, base_page |-> TRUE]
      [] section = "contact" ->
            [kind |-> "center",
             id |-> Some(<<"c", "o", "n", "t", "a", "c", "t", "m", "e">>),
             base_page |-> FALSE]
      [] OTHER -> [kind |-> "box", id |-> None, base_page |-> FALSE]
\* no import has raised
NoError == [at |-> "none", exc |-> "none"]

Init ==
    /\ fs \in StartFiles
    /\ pc = "import_navbar"
    /\ error = NoError
    /\ resume_path = Unbound
    /\ ABOUT_ME_DATA = Unbound
    /\ SKILLS_DATA = Unbound
    /\ EDUCATION_DATA = Unbound
    /\ WORK_EXPERIENCE_DATA = Unbound
    /\ CONTACT_DATA = Unbound
    /\ STATIC_CONTACT_LINKS = Unbound
    /\ PROJECTS_DATA_LIST = Unbound
    /\ page = NoPage

\* the module imported after each module
NextModule(m) ==
    CASE m = "import_navbar" -> "import_about"
      [] m = "import_about" -> "import_skills"
      [] m = "import_skills" -> "import_education"
      [] m = "import_education" -> "import_work"
      [] m = "import_work" -> "import_contact"
      [] m = "import_contact" -> "import_projects"
      [] OTHER -> "serving"

\* the control state after a loader has returned or raised
AfterLoad(r) ==
    /\ pc' = IF r.exc = "none" THEN NextModule(pc) ELSE "crashed"
    /\ error' = IF r.exc = "none" THEN error ELSE [at |-> pc, exc |-> r.exc]

\* class NavbarState: resume_path: str = get_resume_path()
ImportNavbar ==
    /\ pc = "import_navbar"
    /\ LET r == get_resume_path(fs)
       IN  /\ AfterLoad(r)
           /\ resume_path' = IF r.exc = "none" THEN r.val ELSE resume_path
    /\ UNCHANGED <<fs, ABOUT_ME_DATA, SKILLS_DATA, EDUCATION_DATA,
                   WORK_EXPERIENCE_DATA, CONTACT_DATA, STATIC_CONTACT_LINKS,
                   PROJECTS_DATA_LIST, page>>

\* ABOUT_ME_DATA = load_about_me_data()
ImportAbout ==
    /\ pc = "import_about"
    /\ LET r == load_about_me_data(fs)
       IN  /\ AfterLoad(r)
           /\ ABOUT_ME_DATA' = IF r.exc = "none" THEN r.val ELSE ABOUT_ME_DATA
    /\ UNCHANGED <<fs, resume_path, SKILLS_DATA, EDUCATION_DATA,
                   WORK_EXPERIENCE_DATA, CONTACT_DATA, STATIC_CONTACT_LINKS,
                   PROJECTS_DATA_LIST, page>>

\* SKILLS_DATA = load_skills_data()
ImportSkills ==
    /\ pc = "import_skills"
    /\ LET r == load_skills_data(fs)
       IN  /\ AfterLoad(r)
           /\ SKILLS_DATA' = IF r.exc = "none" THEN r.val ELSE SKILLS_DATA
    /\ UNCHANGED <<fs, resume_path, ABOUT_ME_DATA, EDUCATION_DATA,
                   WORK_EXPERIENCE_DATA, CONTACT_DATA, STATIC_CONTACT_LINKS,
                   PROJECTS_DATA_LIST, page>>

\* EDUCATION_DATA = load_education_data()
ImportEducation ==
    /\ pc = "import_education"
    /\ LET r == load_education_data(fs)
       IN  /\ AfterLoad(r)
           /\ EDUCATION_DATA' = IF r.exc = "none" THEN r.val ELSE EDUCATION_DATA
    /\ UNCHANGED <<fs, resume_path, ABOUT_ME_DATA, SKILLS_DATA,
                   WORK_EXPERIENCE_DATA, CONTACT_DATA, STATIC_CONTACT_LINKS,
                   PROJECTS_DATA_LIST, page>>

\* WORK_EXPERIENCE_DATA = load_work_data()
ImportWork ==
    /\ pc = "import_work"
    /\ LET r == load_work_data(fs)
       IN  /\ AfterLoad(r)
           /\ WORK_EXPERIENCE_DATA' =
                  IF r.exc = "none" THEN r.val ELSE WORK_EXPERIENCE_DATA
    /\ UNCHANGED <<fs, resume_path, ABOUT_ME_DATA, SKILLS_DATA, EDUCATION_DATA,
                   CONTACT_DATA, STATIC_CONTACT_LINKS, PROJECTS_DATA_LIST, page>>

\* CONTACT_DATA = load_contact_data(); STATIC_CONTACT_LINKS = [...]
ImportContact ==
    /\ pc = "import_contact"
    /\ LET r == load_contact_data(fs)
       IN  /\ AfterLoad(r)
           /\ CONTACT_DATA' = IF r.exc = "none" THEN r.val ELSE CONTACT_DATA
           /\ STATIC_CONTACT_LINKS' =
                  IF r.exc = "none" THEN static_contact_links(r.val)
                  ELSE STATIC_CONTACT_LINKS
    /\ UNCHANGED <<fs, resume_path, ABOUT_ME_DATA, SKILLS_DATA, EDUCATION_DATA,
                   WORK_EXPERIENCE_DATA, PROJECTS_DATA_LIST, page>>

\* PROJECTS_DATA_LIST = load_projects_data()
ImportProjects ==
    /\ pc = "import_projects"
    /\ LET r == load_projects_data(fs)
       IN  /\ AfterLoad(r)
           /\ PROJECTS_DATA_LIST' =
                  IF r.exc = "none" THEN r.val ELSE PROJECTS_DATA_LIST
    /\ UNCHANGED <<fs, resume_path, ABOUT_ME_DATA, SKILLS_DATA, EDUCATION_DATA,
                   WORK_EXPERIENCE_DATA, CONTACT_DATA, STATIC_CONTACT_LINKS, page>>

\* a section function is called and its component tree, or the exception it
\* raised, is what the page holds
Render(section, result) ==
    /\ pc = "serving"
    /\ page' = [section |-> section,
                container |-> IF result.exc = "none"
                              THEN section_container(section) ELSE NoContainer,
                result |-> result]
    /\ UNCHANGED <<fs, pc, error, resume_path, ABOUT_ME_DATA, SKILLS_DATA,
                   EDUCATION_DATA, WORK_EXPERIENCE_DATA, CONTACT_DATA,
                   STATIC_CONTACT_LINKS, PROJECTS_DATA_LIST>>

RenderAbout == Render("about", about_me_section(ABOUT_ME_DATA))
\* a render that takes the companies off the loaded list as it shows them
RenderWorkConsuming ==
    /\ pc = "serving"
    /\ page' = [section |-> "work",
                container |-> IF work(WORK_EXPERIENCE_DATA).exc = "none"
                              THEN section_container("work") ELSE NoContainer,
                result |-> work(WORK_EXPERIENCE_DATA)]
    /\ WORK_EXPERIENCE_DATA' = EmptyList
    /\ UNCHANGED <<fs, pc, error, resume_path, ABOUT_ME_DATA, SKILLS_DATA,
                   EDUCATION_DATA, CONTACT_DATA, STATIC_CONTACT_LINKS,
                   PROJECTS_DATA_LIST>>
RenderWork == Render("work", work(WORK_EXPERIENCE_DATA))
\* a render that reads the education file again
RenderEducationReloading ==
    /\ pc = "serving"
    /\ EDUCATION_DATA' = load_education_data(fs).val
    /\ page' = [section |-> "education",
                container |-> section_container("education"),
                result |-> education(EDUCATION_DATA')]
    /\ UNCHANGED <<fs, pc, error, resume_path, ABOUT_ME_DATA, SKILLS_DATA,
                   WORK_EXPERIENCE_DATA, CONTACT_DATA, STATIC_CONTACT_LINKS,
                   PROJECTS_DATA_LIST>>
RenderEducation == Render("education", education(EDUCATION_DATA))
RenderProjects == Render("projects", projects(PROJECTS_DATA_LIST))
RenderContact == Render("contact", contact_me(CONTACT_DATA, STATIC_CONTACT_LINKS))
RenderNavbar == Render("navbar", navbar_icons(resume_path))

\* index(): base_page around single_page_content, which calls the section
\* functions in order; the page holds one navbar for its own base_page and
\* one more for every section function that wraps its content in base_page
index ==
    LET content == Collect(<<about_me_section(ABOUT_ME_DATA),
                             work(WORK_EXPERIENCE_DATA),
                             education(EDUCATION_DATA),
                             projects(PROJECTS_DATA_LIST),
                             contact_me(CONTACT_DATA, STATIC_CONTACT_LINKS)>>)
        wrapped == {i \in 1..Len(SinglePageSections) :
                       section_container(SinglePageSections[i]).base_page}
    IN  IF content.exc # "none" THEN content
        ELSE Ok([kind |-> "index", sections |-> SinglePageSections,
                 navbars |-> 1 + Cardinality(wrapped)])

RenderIndex == Render("index", index)

Next ==
    \/ ImportNavbar
    \/ ImportAbout
    \/ ImportSkills
    \/ ImportEducation
    \/ ImportWork
    \/ ImportContact
    \/ ImportProjects
    \/ RenderAbout
    \/ RenderWork
    \/ RenderEducation
    \/ RenderProjects
    \/ RenderContact
    \/ RenderNavbar
    \/ RenderIndex

Spec == Init /\ [][Next]_vars

----------------------------------------------------------------------------
(* The same program while the content files are edited on disk by their    *)
(* owner: each file is deployed or removed at any moment.                   *)

\* the contents a file is switched between
DiskContents(f) == {Absent, SampleFiles[f]}

InitDisk ==
    /\ fs \in {[f \in Files |-> IF f \in present THEN SampleFiles[f] ELSE Absent] :
                  present \in SUBSET Files}
    /\ pc = "import_navbar"
    /\ error = NoError
    /\ resume_path = Unbound
    /\ ABOUT_ME_DATA = Unbound
    /\ SKILLS_DATA = Unbound
    /\ EDUCATION_DATA = Unbound
    /\ WORK_EXPERIENCE_DATA = Unbound
    /\ CONTACT_DATA = Unbound
    /\ STATIC_CONTACT_LINKS = Unbound
    /\ PROJECTS_DATA_LIST = Unbound
    /\ page = NoPage

\* the environment replaces one content file
EditFile ==
    /\ \E f \in Files :
          \E c \in DiskContents(f) \ {fs[f]} : fs' = [fs EXCEPT ![f] = c]
    /\ UNCHANGED <<pc, error, resume_path, ABOUT_ME_DATA, SKILLS_DATA,
                   EDUCATION_DATA, WORK_EXPERIENCE_DATA, CONTACT_DATA,
                   STATIC_CONTACT_LINKS, PROJECTS_DATA_LIST, page>>

NextDisk ==
    \/ Next
    \/ EditFile

SpecDisk == InitDisk /\ [][NextDisk]_vars

----------------------------------------------------------------------------
(* The same program run a second time on the same files: the modules are    *)
(* executed again from the first and rebind their names.                    *)

Reloaded == [section |-> "reloaded", container |-> NoContainer,
             result |-> Ok(<<>>)]

Reload ==
    /\ pc = "serving"
    /\ pc' = "import_navbar"
    /\ page' = Reloaded
    /\ UNCHANGED <<fs, error, resume_path, ABOUT_ME_DATA, SKILLS_DATA,
                   EDUCATION_DATA, WORK_EXPERIENCE_DATA, CONTACT_DATA,
                   STATIC_CONTACT_LINKS, PROJECTS_DATA_LIST>>

NextReload ==
    \/ Next
    \/ Reload

SpecReload == Init /\ [][NextReload]_vars

----------------------------------------------------------------------------
(* Claims.                                                                  *)

\* the place of a module in the import order
Position(m) ==
    CASE m = "import_navbar" -> 0
      [] m = "import_about" -> 1
      [] m = "import_skills" -> 2
      [] m = "import_education" -> 3
      [] m = "import_work" -> 4
      [] m = "import_contact" -> 5
      [] m = "import_projects" -> 6
      [] OTHER -> 7

\* module m has run to its end, so the names it defines are bound
Imported(m) ==
    Position(m) < Position(IF pc = "crashed" THEN error.at ELSE pc)

\* the module each loader runs in and the file it reads first
LoaderModules ==
    {"import_navbar", "import_about", "import_skills", "import_education",
     "import_work", "import_contact", "import_projects"}
LoaderFile(m) ==
    CASE m = "import_navbar" -> CONTACT_PATH
      [] m = "import_about" -> ABOUT_PATH
      [] m = "import_skills" -> SKILLS_PATH
      [] m = "import_education" -> EDUCATION_PATH
      [] m = "import_work" -> WORK_PATH
      [] m = "import_contact" -> CONTACT_PATH
      [] OTHER -> PROJECTS_PATH

\* C1: whatever the state of a loader's file (absent, present but unreadable,
\* unparsable), the loader returns to its caller: no import ends with an
\* exception raised by a loader whose file is in such a state.
C1_LoadersNeverRaise ==
    \A m \in LoaderModules :
        fs[LoaderFile(m)] \in Broken => error.at # m

\* the file load_about_me_data opens
AboutOpened == IF fs[ABOUT_PATH] = Absent THEN fs[ABOUT_FALLBACK_PATH]
               ELSE fs[ABOUT_PATH]

MissingOrUnparsable == {Absent, Garbage}

AboutAllEmpty ==
    JObj([standard_bio |-> "", personal_insights |-> <<>>,
          my_selfie |-> FALSE, footnote |-> <<>>])
ContactAllEmpty ==
    [profile_pic |-> <<>>, resume |-> <<>>, qrcode |-> <<>>, links |-> <<>>,
     name |-> ""]
ContactNamedDefault ==
    [profile_pic |-> <<>>, resume |-> <<>>, qrcode |-> <<>>, links |-> <<>>,
     name |-> "Prabhat Racherla"]

\* a missing or unparsable file yields the given default and no rendered record
EmptyDefaults(contact_default) ==
    /\ (Imported("import_about") /\ AboutOpened \in MissingOrUnparsable) =>
          /\ ABOUT_ME_DATA = AboutAllEmpty
          /\ page.section = "about" =>
                page.result = Ok([top |-> Box, insights |-> Box, footnote |-> Box])
    /\ (Imported("import_education") /\ fs[EDUCATION_PATH] \in MissingOrUnparsable) =>
          /\ EDUCATION_DATA = JArr(<<>>)
          /\ page.section = "education" => page.result = Ok(<<>>)
    /\ (Imported("import_work") /\ fs[WORK_PATH] \in MissingOrUnparsable) =>
          /\ WORK_EXPERIENCE_DATA = JArr(<<>>)
          /\ page.section = "work" => page.result = Ok(<<>>)
    /\ (Imported("import_contact") /\ fs[CONTACT_PATH] \in MissingOrUnparsable) =>
          /\ CONTACT_DATA = contact_default
          /\ STATIC_CONTACT_LINKS = <<>>
          /\ page.section = "contact" =>
                page.result = Ok([links |-> <<>>, qrcode |-> Box, profile |-> Box])
    /\ (Imported("import_projects") /\ fs[PROJECTS_PATH] \in MissingOrUnparsable) =>
          /\ PROJECTS_DATA_LIST = <<>>
          /\ page.section = "projects" => page.result = Ok(<<>>)

\* C2 as stated: for every content type an unparsable file and an absent file
\* both load as the type's empty default (the empty list; for About and
\* Contact the record whose every field is empty) and render zero records.
C2_AllEmptyDefaults == EmptyDefaults(ContactAllEmpty)

\* C2 amended: the same, except that the Contact default is the record whose
\* name is "Prabhat Racherla" and whose other fields are empty.
C2_EmptyDefaults == EmptyDefaults(ContactNamedDefault)

\* an unparsable about file, with a readable file at the fallback path, has
\* been loaded and the about section rendered
C2_Witness ==
    /\ pc = "serving"
    /\ fs[ABOUT_PATH] = Garbage
    /\ fs[ABOUT_FALLBACK_PATH] # Absent
    /\ page.section = "about"
    /\ ABOUT_ME_DATA = AboutAllEmpty

\* whether a JSON value passes the ContactData schema
ContactFileValid(v) ==
    /\ v.t = "obj"
    /\ {"profile_pic", "resume", "qrcode", "links"} \subseteq DOMAIN v.o
    /\ \A i \in 1..Len(v.o["links"]) :
          LET l == v.o["links"][i]
          IN  /\ l.t = "obj"
              /\ {"name", "icon", "href", "color"} \subseteq DOMAIN l.o
              /\ l.o["color"] \in LiteralAccentColor

\* load_contact_data has fallen back
ContactFellBack ==
    /\ Imported("import_contact")
    /\ \/ fs[CONTACT_PATH] \in Broken
       \/ ~ContactFileValid(fs[CONTACT_PATH].val)

\* C8 as stated: when load_contact_data falls back, every field of the record
\* is empty: name, profile_pic, resume and qrcode are "" and links is [].
C8_FallbackAllEmpty == ContactFellBack => CONTACT_DATA = ContactAllEmpty

\* C8 amended: when load_contact_data falls back, profile_pic, resume and
\* qrcode are "" and links is [], and name is the default "Prabhat Racherla".
C8_FallbackRecord == ContactFellBack => CONTACT_DATA = ContactNamedDefault

\* a contact file that parses but fails validation has been loaded
C8_Witness ==
    /\ Imported("import_contact")
    /\ fs[CONTACT_PATH].kind = "json"
    /\ fs[CONTACT_PATH].val.t = "obj"
    /\ "resume" \in DOMAIN fs[CONTACT_PATH].val.o
    /\ fs[CONTACT_PATH].val.o["resume"] # <<>>
    /\ ~ContactFileValid(fs[CONTACT_PATH].val)
    /\ CONTACT_DATA.resume = <<>>

----------------------------------------------------------------------------
(* Record lists as the claims see them.                                     *)

\* the file holds a JSON array
IsArrayFile(path) == fs[path].kind = "json" /\ fs[path].val.t = "arr"
FileItems(path) == fs[path].val.items

ValidEducation(v) == v.t = "obj" /\ EducationRequired \subseteq DOMAIN v.o
ValidWork(v) == v.t = "obj" /\ WorkRequired \subseteq DOMAIN v.o
ValidProject(v) == v.t = "obj" /\ ProjectRequired \subseteq DOMAIN v.o

\* every element is a JSON object, exactly one of them fails Valid and at
\* least one passes it
OneInvalid(items, Valid(_)) ==
    /\ \A i \in 1..Len(items) : items[i].t = "obj"
    /\ Cardinality({i \in 1..Len(items) : ~Valid(items[i])}) = 1
    /\ Len(items) >= 2

AllValid(items, Valid(_)) == \A i \in 1..Len(items) : Valid(items[i])

\* the rendered section returned one component per record of `records`, in
\* their order, each showing under `shown` the record's `key`
Renders(records, shown, key) ==
    /\ page.result.exc = "none"
    /\ Len(page.result.val) = Len(records)
    /\ \A i \in 1..Len(records) :
          page.result.val[i][shown] = records[i].o[key]

\* C3 as stated: in Projects, Education and Work a record that lacks a
\* required field is dropped on its own: the page holds components for
\* exactly the other records, in source order, and no exception reaches it.
C3_InvalidRecordDropped ==
    pc = "serving" =>
        /\ (page.section = "projects" /\ IsArrayFile(PROJECTS_PATH)
               /\ OneInvalid(FileItems(PROJECTS_PATH), ValidProject)) =>
              Renders(SelectSeq(FileItems(PROJECTS_PATH), ValidProject),
                      "title", "title")
        /\ (page.section = "education" /\ IsArrayFile(EDUCATION_PATH)
               /\ OneInvalid(FileItems(EDUCATION_PATH), ValidEducation)) =>
              Renders(SelectSeq(FileItems(EDUCATION_PATH), ValidEducation),
                      "institution", "institution")
        /\ (page.section = "work" /\ IsArrayFile(WORK_PATH)
               /\ OneInvalid(FileItems(WORK_PATH), ValidWork)) =>
              Renders(SelectSeq(FileItems(WORK_PATH), ValidWork),
                      "company", "company")

\* the about file holds an object with every key of the About record
AboutComplete ==
    /\ fs[ABOUT_PATH].kind = "json"
    /\ fs[ABOUT_PATH].val.t = "obj"
    /\ DOMAIN fs[ABOUT_PATH].val.o = AboutKeys
AboutFile == fs[ABOUT_PATH].val.o

ContactComplete ==
    /\ fs[CONTACT_PATH].kind = "json"
    /\ ContactFileValid(fs[CONTACT_PATH].val)
ContactFile == fs[CONTACT_PATH].val.o

\* C4: a well-formed file whose N records are all valid yields exactly N
\* mapped components in the order of the source array, for Projects,
\* Education, Work, the Contact links and the About insights.
C4_OneComponentPerRecord ==
    /\ (pc = "serving" /\ page.section = "projects" /\ IsArrayFile(PROJECTS_PATH)
           /\ AllValid(FileItems(PROJECTS_PATH), ValidProject)) =>
          Renders(FileItems(PROJECTS_PATH), "title", "title")
    /\ (pc = "serving" /\ page.section = "education" /\ IsArrayFile(EDUCATION_PATH)
           /\ AllValid(FileItems(EDUCATION_PATH), ValidEducation)) =>
          Renders(FileItems(EDUCATION_PATH), "institution", "institution")
    /\ (pc = "serving" /\ page.section = "work" /\ IsArrayFile(WORK_PATH)
           /\ AllValid(FileItems(WORK_PATH), ValidWork)) =>
          Renders(FileItems(WORK_PATH), "company", "company")
    /\ (Imported("import_contact") /\ ContactComplete) =>
          /\ Len(STATIC_CONTACT_LINKS) = Len(ContactFile["links"])
          /\ \A i \in 1..Len(ContactFile["links"]) :
                STATIC_CONTACT_LINKS[i].href = ContactFile["links"][i].o["href"]
          /\ (pc = "serving" /\ page.section = "contact") =>
                /\ page.result.exc = "none"
                /\ page.result.val.links = STATIC_CONTACT_LINKS
    /\ (Imported("import_about") /\ AboutComplete) =>
          LET section == bottom_insights_section(ABOUT_ME_DATA)
              records == AboutFile["personal_insights"]
          IN  /\ section.exc = "none"
              /\ IF records = <<>> THEN section.val = Box
                 ELSE /\ Len(section.val.cards) = Len(records)
                      /\ \A i \in 1..Len(records) :
                            section.val.cards[i].title = records[i].o["title"]

\* three valid education records, two of them equal and adjacent, have been
\* rendered
C4_Witness ==
    /\ pc = "serving"
    /\ page.section = "education"
    /\ IsArrayFile(EDUCATION_PATH)
    /\ AllValid(FileItems(EDUCATION_PATH), ValidEducation)
    /\ Len(FileItems(EDUCATION_PATH)) >= 3
    /\ FileItems(EDUCATION_PATH)[1] = FileItems(EDUCATION_PATH)[2]
    /\ FileItems(EDUCATION_PATH)[2] # FileItems(EDUCATION_PATH)[3]
    /\ Len(page.result.val) = Len(FileItems(EDUCATION_PATH))

----------------------------------------------------------------------------
(* Optional assets.                                                         *)

\* an optional text field of a record is absent or empty
Unset(o, k) == k \notin DOMAIN o \/ o[k] = <<>>
UnsetText(o, k) == k \notin DOMAIN o \/ o[k] = ""

\* the footnote of the about file has content and no picture
FootnoteWithoutMeme ==
    /\ AboutComplete
    /\ AboutFile["standard_bio"] # ""
    /\ Get(AboutFile["footnote"], "content", "") # ""
    /\ Unset(AboutFile["footnote"], "ai_meme")

\* C5 as stated: a record with every required field and any of its optional
\* asset / link fields absent or empty is mapped to a component without an
\* exception, and no image (or link) is emitted for the absent field; an
\* About footnote with content and no ai_meme renders its text with no image.
C5_OptionalAssetsOmitted ==
    pc = "serving" =>
        /\ (page.section = "about" /\ FootnoteWithoutMeme) =>
              /\ page.result.exc = "none"
              /\ page.result.val.footnote.kind = "footnote"
              /\ page.result.val.footnote.text = AboutFile["footnote"]["content"]
              /\ page.result.val.footnote.image = None
        /\ (page.section = "education" /\ IsArrayFile(EDUCATION_PATH)
               /\ AllValid(FileItems(EDUCATION_PATH), ValidEducation)) =>
              /\ page.result.exc = "none"
              /\ Len(page.result.val) = Len(FileItems(EDUCATION_PATH))
              /\ \A i \in 1..Len(FileItems(EDUCATION_PATH)) :
                    LET o == FileItems(EDUCATION_PATH)[i].o
                    IN  /\ Unset(o, "logo") => page.result.val[i].logo = None
                        /\ Unset(o, "campus_pic") =>
                              page.result.val[i].campus_image = None
        /\ (page.section = "work" /\ IsArrayFile(WORK_PATH)
               /\ AllValid(FileItems(WORK_PATH), ValidWork)) =>
              /\ page.result.exc = "none"
              /\ Len(page.result.val) = Len(FileItems(WORK_PATH))
              /\ \A i \in 1..Len(FileItems(WORK_PATH)) :
                    Unset(FileItems(WORK_PATH)[i].o, "logo") =>
                        page.result.val[i].logo = None
        /\ (page.section = "projects" /\ IsArrayFile(PROJECTS_PATH)
               /\ AllValid(FileItems(PROJECTS_PATH), ValidProject)) =>
              /\ page.result.exc = "none"
              /\ Len(page.result.val) = Len(FileItems(PROJECTS_PATH))
              /\ \A i \in 1..Len(FileItems(PROJECTS_PATH)) :
                    LET o == FileItems(PROJECTS_PATH)[i].o
                    IN  /\ Unset(o, "image") =>
                              page.result.val[i].dialog.project_image = None
                        /\ UnsetText(o, "extra_href") =>
                              page.result.val[i].dialog.research_paper_link_section
                                  = None

----------------------------------------------------------------------------
(* Filenames and the paths emitted for them.                                *)

\* a non-empty filename with no "/" in it
Bare(f) == f # <<>> /\ \A i \in 1..Len(f) : f[i] # "/"

\* the reference a mapper must emit for the filename field k of record o:
\* "/" + f for a bare f, none for an empty f; TRUE for any other f
EmitsFor(o, k, emitted) ==
    /\ (k \in DOMAIN o /\ Bare(o[k])) => emitted = Some(Slash(o[k]))
    /\ (k \in DOMAIN o /\ o[k] = <<>>) => emitted = None

\* the image reference of a contact component
Src(component) ==
    IF component.kind = "box" THEN None ELSE Some(component.src)

\* C6 as stated: for logo, image, profile_pic, qrcode and campus_pic, a
\* non-empty bare filename f is emitted as "/" + f and an empty one as no
\* reference.
C6_BareFilenamePrefixed ==
    pc = "serving" =>
        /\ (page.section = "education" /\ IsArrayFile(EDUCATION_PATH)
               /\ AllValid(FileItems(EDUCATION_PATH), ValidEducation)) =>
              \A i \in 1..Len(FileItems(EDUCATION_PATH)) :
                  LET o == FileItems(EDUCATION_PATH)[i].o
                  IN  /\ EmitsFor(o, "logo", page.result.val[i].logo)
                      /\ EmitsFor(o, "campus_pic", page.result.val[i].campus_image)
        /\ (page.section = "work" /\ IsArrayFile(WORK_PATH)
               /\ AllValid(FileItems(WORK_PATH), ValidWork)) =>
              \A i \in 1..Len(FileItems(WORK_PATH)) :
                  EmitsFor(FileItems(WORK_PATH)[i].o, "logo",
                           page.result.val[i].logo)
        /\ (page.section = "projects" /\ IsArrayFile(PROJECTS_PATH)
               /\ AllValid(FileItems(PROJECTS_PATH), ValidProject)) =>
              \A i \in 1..Len(FileItems(PROJECTS_PATH)) :
                  EmitsFor(FileItems(PROJECTS_PATH)[i].o, "image",
                           page.result.val[i].dialog.project_image)
        /\ (page.section = "contact" /\ ContactComplete) =>
              /\ EmitsFor(ContactFile, "profile_pic", Src(page.result.val.profile))
              /\ EmitsFor(ContactFile, "qrcode", Src(page.result.val.qrcode))

\* a filename that is already root-relative: "/" and then a bare name
Prefixed(f) == Len(f) >= 2 /\ f[1] = "/" /\ Bare(Tail(f))

\* the reference emitted for an already prefixed field k of record o has
\* exactly one leading "/"
SinglePrefix(o, k, emitted) ==
    (k \in DOMAIN o /\ Prefixed(o[k])) => emitted = Some(o[k])

\* C7 as stated: no resolver double-prefixes: a resume, profile_pic, qrcode,
\* logo or campus_pic that already starts with "/" resolves to a path with
\* exactly one leading "/".
C7_NoDoublePrefix ==
    /\ (Imported("import_navbar") /\ ContactComplete) =>
          SinglePrefix(ContactFile, "resume", Some(resume_path))
    /\ (pc = "serving" /\ page.section = "contact" /\ ContactComplete) =>
          /\ SinglePrefix(ContactFile, "profile_pic", Src(page.result.val.profile))
          /\ SinglePrefix(ContactFile, "qrcode", Src(page.result.val.qrcode))
    /\ (pc = "serving" /\ page.section = "education"
           /\ IsArrayFile(EDUCATION_PATH)
           /\ AllValid(FileItems(EDUCATION_PATH), ValidEducation)) =>
          \A i \in 1..Len(FileItems(EDUCATION_PATH)) :
              LET o == FileItems(EDUCATION_PATH)[i].o
              IN  /\ SinglePrefix(o, "logo", page.result.val[i].logo)
                  /\ SinglePrefix(o, "campus_pic", page.result.val[i].campus_image)
    /\ (pc = "serving" /\ page.section = "work" /\ IsArrayFile(WORK_PATH)
           /\ AllValid(FileItems(WORK_PATH), ValidWork)) =>
          \A i \in 1..Len(FileItems(WORK_PATH)) :
              SinglePrefix(FileItems(WORK_PATH)[i].o, "logo",
                           page.result.val[i].logo)

----------------------------------------------------------------------------
(* The optional keys of the About record.                                   *)

\* the about file is an object with the two mandatory keys
AboutHasMandatory ==
    /\ fs[ABOUT_PATH].kind = "json"
    /\ fs[ABOUT_PATH].val.t = "obj"
    /\ {"standard_bio", "personal_insights"} \subseteq DOMAIN AboutFile

\* C9 as stated: for an about object with standard_bio and personal_insights
\* that lacks my_selfie and/or footnote, the loader returns the file's
\* standard_bio and personal_insights with my_selfie = false and
\* footnote = {} put in for whichever is absent.
C9_OptionalKeysDefaulted ==
    (Imported("import_about") /\ AboutHasMandatory) =>
        ABOUT_ME_DATA =
            JObj([standard_bio |-> AboutFile["standard_bio"],
                  personal_insights |-> AboutFile["personal_insights"],
                  my_selfie |-> Get(AboutFile, "my_selfie", FALSE),
                  footnote |-> Get(AboutFile, "footnote", EmptyDict)])

----------------------------------------------------------------------------
(* The education details string.                                            *)

HasColon(s) == \E i \in 1..Len(s) : s[i] = ":"
\* the position of the first ":"
FirstColon(s) ==
    CHOOSE i \in 1..Len(s) : s[i] = ":" /\ \A j \in 1..(i - 1) : s[j] # ":"

RECURSIVE LStrip(_)
LStrip(s) == IF s # <<>> /\ Head(s) = " " THEN LStrip(Tail(s)) ELSE s
RECURSIVE RStrip(_)
RStrip(s) ==
    IF s # <<>> /\ s[Len(s)] = " " THEN RStrip(SubSeq(s, 1, Len(s) - 1)) ELSE s
\* str.strip()
Strip(s) == LStrip(RStrip(s))

\* the label and the value a split on the first ":" gives
SplitLabel(s) == Strip(SubSeq(s, 1, FirstColon(s) - 1)) \o <<":">>
SplitValue(s) == SubSeq(s, FirstColon(s) + 1, Len(s))

\* C10 as stated: the education mapper splits details on its first ":": with
\* a colon the trimmed text before it plus ":" is the label and the text
\* after it is the badge's value; without one the whole string is the value
\* and the label is the fixed one.
C10_DetailsSplit ==
    (pc = "serving" /\ page.section = "education" /\ IsArrayFile(EDUCATION_PATH)
        /\ AllValid(FileItems(EDUCATION_PATH), ValidEducation)) =>
       \A i \in 1..Len(FileItems(EDUCATION_PATH)) :
           LET details == FileItems(EDUCATION_PATH)[i].o["details"]
               card == page.result.val[i]
           IN  IF HasColon(details)
               THEN /\ Strip(card.gpa_value) = Strip(SplitValue(details))
                    /\ Strip(card.desktop_gpa_label) = SplitLabel(details)
                    /\ Strip(card.mobile_gpa_label) = SplitLabel(details)
               ELSE /\ card.gpa_value = details
                    /\ card.desktop_gpa_label = DESKTOP_GPA_LABEL
                    /\ card.mobile_gpa_label = MOBILE_GPA_LABEL

----------------------------------------------------------------------------
(* The project card and its dialog.                                         *)

\* the projects section has been rendered from an array of valid records
ProjectsRendered ==
    /\ pc = "serving"
    /\ page.section = "projects"
    /\ IsArrayFile(PROJECTS_PATH)
    /\ AllValid(FileItems(PROJECTS_PATH), ValidProject)
    /\ page.result.exc = "none"
    /\ Len(page.result.val) = Len(FileItems(PROJECTS_PATH))

\* C11: the team-size badge of a project card reads "Individual" when
\* teamsize is 1 and "Team of N" for every other positive N, never both.
C11_TeamsizeLabel ==
    ProjectsRendered =>
        \A i \in 1..Len(FileItems(PROJECTS_PATH)) :
            LET n == FileItems(PROJECTS_PATH)[i].o["teamsize"]
                badge == page.result.val[i].teamsize_badge
            IN  /\ n = 1 => badge = <<"Individual">>
                /\ n = 2 => badge = <<"Team of ", "2">>
                /\ n = 10 => badge = <<"Team of ", "1", "0">>
                /\ n # 1 => /\ badge # <<"Individual">>
                            /\ Head(badge) = "Team of "
                            /\ Tail(badge) = to_str(n)

\* a project of a single author has been rendered
C11_Witness ==
    /\ ProjectsRendered
    /\ \E i \in 1..Len(FileItems(PROJECTS_PATH)) :
          /\ FileItems(PROJECTS_PATH)[i].o["teamsize"] = 1
          /\ page.result.val[i].teamsize_badge = <<"Individual">>

\* C12: the dialog holds the extra-link section exactly when extra_href is
\* set; its label is extra_href_display_name followed by ": " when that is
\* set and "Research Paper: " otherwise, and its target is extra_href.
C12_ExtraLinkSection ==
    ProjectsRendered =>
        \A i \in 1..Len(FileItems(PROJECTS_PATH)) :
            LET o == FileItems(PROJECTS_PATH)[i].o
                section == page.result.val[i].dialog.research_paper_link_section
            IN  /\ section.some <=> ~UnsetText(o, "extra_href")
                /\ section.some =>
                      /\ section.v.href = o["extra_href"]
                      /\ section.v.label =
                            IF UnsetText(o, "extra_href_display_name")
                            THEN <<"Research Paper: ">>
                            ELSE <<o["extra_href_display_name"], ": ">>

\* a project with an extra link and a display name for it has been rendered
C12_Witness ==
    /\ ProjectsRendered
    /\ \E i \in 1..Len(FileItems(PROJECTS_PATH)) :
          /\ ~UnsetText(FileItems(PROJECTS_PATH)[i].o, "extra_href")
          /\ ~UnsetText(FileItems(PROJECTS_PATH)[i].o, "extra_href_display_name")
          /\ page.result.val[i].dialog.research_paper_link_section.some

----------------------------------------------------------------------------
(* The resume link.                                                         *)

\* the navbar has been rendered
NavbarRendered ==
    pc = "serving" /\ page.section = "navbar" /\ page.result.exc = "none"

\* the contact file is an object whose resume is the given filename
ResumeIs(f) ==
    /\ fs[CONTACT_PATH].kind = "json"
    /\ fs[CONTACT_PATH].val.t = "obj"
    /\ "resume" \in DOMAIN fs[CONTACT_PATH].val.o
    /\ fs[CONTACT_PATH].val.o["resume"] = f

\* C13: a contact file whose resume is the bare filename f makes the navbar's
\* resume link target "/" + f and be interactive; a resume of "", or an
\* absent or unparsable contact file, makes the resolved path "" and the
\* link disabled: href "#", not-allowed cursor, tooltip "Resume link not
\* available".
C13_ResumeLink ==
    NavbarRendered =>
        /\ \A f \in FileNames :
              (ResumeIs(f) /\ Bare(f)) =>
                  /\ resume_path = Slash(f)
                  /\ page.result.val.resume.href = Slash(f)
                  /\ page.result.val.resume.cursor = "pointer"
                  /\ page.result.val.resume.tooltip = "Download Me"
        /\ (ResumeIs(<<>>) \/ fs[CONTACT_PATH] \in MissingOrUnparsable) =>
              /\ resume_path = <<>>
              /\ page.result.val.resume.href = <<"#">>
              /\ page.result.val.resume.cursor = "not-allowed"
              /\ page.result.val.resume.tooltip = "Resume link not available"

\* the navbar has been rendered for a contact file with an empty resume
C13_Witness ==
    /\ NavbarRendered
    /\ ResumeIs(<<>>)
    /\ page.result.val.resume.href = <<"#">>

----------------------------------------------------------------------------
(* The nesting of the work section.                                         *)

\* the work section has been rendered from an array of valid companies
WorkRendered ==
    /\ pc = "serving"
    /\ page.section = "work"
    /\ IsArrayFile(WORK_PATH)
    /\ AllValid(FileItems(WORK_PATH), ValidWork)

\* the blocks are one per record, in the records' order, each with the
\* record's title under `key`
SameTitles(blocks, records, key) ==
    /\ Len(blocks) = Len(records)
    /\ \A i \in 1..Len(records) : blocks[i][key] = records[i][key]

\* C14: the work section holds one company block per company, under each
\* one role block per role, and under each role one project block per
\* project, every level in the order of the JSON source.
C14_WorkNesting ==
    WorkRendered =>
        /\ page.result.exc = "none"
        /\ Len(page.result.val) = Len(FileItems(WORK_PATH))
        /\ \A c \in 1..Len(FileItems(WORK_PATH)) :
              LET company == FileItems(WORK_PATH)[c].o
                  block == page.result.val[c]
              IN  /\ block.kind = "company"
                  /\ block.company = company["company"]
                  /\ SameTitles(block.roles, company["roles"], "title")
                  /\ \A r \in 1..Len(company["roles"]) :
                        /\ block.roles[r].kind = "role"
                        /\ SameTitles(block.roles[r].projects,
                                      company["roles"][r]["projects"], "title")
                        /\ \A q \in 1..Len(block.roles[r].projects) :
                              block.roles[r].projects[q].kind = "project"

\* one company with one role with two projects has been rendered
C14_Witness ==
    /\ WorkRendered
    /\ Len(FileItems(WORK_PATH)) = 1
    /\ Len(FileItems(WORK_PATH)[1].o["roles"]) = 1
    /\ Len(FileItems(WORK_PATH)[1].o["roles"][1]["projects"]) = 2
    /\ page.result.exc = "none"
    /\ Len(page.result.val) = 1
    /\ Len(page.result.val[1].roles) = 1
    /\ Len(page.result.val[1].roles[1].projects) = 2

----------------------------------------------------------------------------
(* Empty record lists.                                                      *)

\* the section rendered is one whose loaded list is empty
EmptyListRendered ==
    /\ pc = "serving"
    /\ \/ page.section = "projects" /\ PROJECTS_DATA_LIST = <<>>
       \/ page.section = "education" /\ EDUCATION_DATA = JArr(<<>>)
       \/ page.section = "work" /\ WORK_EXPERIENCE_DATA = JArr(<<>>)

\* C15: for Projects, Education and Work an empty loaded list is rendered as
\* an element with nothing in it: no record component and no error.
C15_EmptyListPlaceholder ==
    EmptyListRendered =>
        /\ page.result = Ok(<<>>)
        /\ page.container.kind = "center"

\* the work section has been rendered from a file holding the empty array
C15_Witness ==
    /\ EmptyListRendered
    /\ page.section = "work"
    /\ fs[WORK_PATH] = Json(JArr(<<>>))
    /\ page.result = Ok(<<>>)

----------------------------------------------------------------------------
(* The record sets after their load.                                        *)

\* C16: each record set is bound once, by its module's import, and keeps the
\* value computed then through every later render and every change of the
\* files on disk; and no step of the program writes a content file.
C16_LoadedOnce ==
    [][/\ fs' = fs \/ ~Next
       /\ Imported("import_navbar") => resume_path' = resume_path
       /\ Imported("import_about") => ABOUT_ME_DATA' = ABOUT_ME_DATA
       /\ Imported("import_education") => EDUCATION_DATA' = EDUCATION_DATA
       /\ Imported("import_work") => WORK_EXPERIENCE_DATA' = WORK_EXPERIENCE_DATA
       /\ Imported("import_contact") =>
             /\ CONTACT_DATA' = CONTACT_DATA
             /\ STATIC_CONTACT_LINKS' = STATIC_CONTACT_LINKS
       /\ Imported("import_projects") => PROJECTS_DATA_LIST' = PROJECTS_DATA_LIST
      ]_vars

\* the education section has been rendered, from the records loaded at
\* import, after the education file was removed from the disk
C16_Witness ==
    /\ pc = "serving"
    /\ page.section = "education"
    /\ fs[EDUCATION_PATH] = Absent
    /\ EDUCATION_DATA # JArr(<<>>)
    /\ page.result.exc = "none"
    /\ Len(page.result.val) = Len(EDUCATION_DATA.items)

----------------------------------------------------------------------------
(* Primary and secondary paths.                                             *)

\* the content is a JSON object holding every key of the About record
CompleteAbout(c) ==
    c.kind = "json" /\ c.val.t = "obj" /\ DOMAIN c.val.o = AboutKeys

\* C17: a loader uses its primary path whenever a file is there; when none is
\* there it returns what the secondary path holds; and when the primary file
\* is there but is not JSON it returns the default without going on to the
\* secondary path, even when a well-formed file is there.
C17_PathPolicy ==
    /\ Imported("import_about") =>
          /\ CompleteAbout(fs[ABOUT_PATH]) => ABOUT_ME_DATA = fs[ABOUT_PATH].val
          /\ (fs[ABOUT_PATH] = Absent /\ CompleteAbout(fs[ABOUT_FALLBACK_PATH])) =>
                ABOUT_ME_DATA = fs[ABOUT_FALLBACK_PATH].val
          /\ fs[ABOUT_PATH] = Garbage => ABOUT_ME_DATA = AboutAllEmpty
    /\ Imported("import_education") =>
          /\ IsArrayFile(EDUCATION_PATH) => EDUCATION_DATA = fs[EDUCATION_PATH].val
          /\ fs[EDUCATION_PATH] \in MissingOrUnparsable =>
                EDUCATION_DATA = JArr(<<>>)
    /\ Imported("import_contact") =>
          /\ ContactComplete =>
                /\ CONTACT_DATA.profile_pic = ContactFile["profile_pic"]
                /\ CONTACT_DATA.resume = ContactFile["resume"]
                /\ CONTACT_DATA.qrcode = ContactFile["qrcode"]
                /\ Len(CONTACT_DATA.links) = Len(ContactFile["links"])
          /\ fs[CONTACT_PATH] \in MissingOrUnparsable =>
                CONTACT_DATA = ContactNamedDefault

\* the primary about file is not JSON, a well-formed file is at the secondary
\* path, and the loader has returned the default
C17_Witness ==
    /\ Imported("import_about")
    /\ fs[ABOUT_PATH] = Garbage
    /\ CompleteAbout(fs[ABOUT_FALLBACK_PATH])
    /\ ABOUT_ME_DATA = AboutAllEmpty
    /\ pc = "import_skills"

----------------------------------------------------------------------------
(* Running the loaders and the mappers again.                               *)

----------------------------------------------------------------------------
(* The technology stack of a project.                                       *)

\* the records of the projects file that pass validation, in their order
ValidProjectsOfFile == SelectSeq(FileItems(PROJECTS_PATH), ValidProject)

\* C19: every ProjectData the loader returns has tech_stack equal to
\* languages_used, element for element, also when the JSON record supplies a
\* tech_stack of its own.
C19_TechStackIsLanguages ==
    Imported("import_projects") =>
        /\ \A i \in 1..Len(PROJECTS_DATA_LIST) :
              PROJECTS_DATA_LIST[i].tech_stack
                  = PROJECTS_DATA_LIST[i].languages_used
        /\ (IsArrayFile(PROJECTS_PATH)
               /\ \A i \in 1..Len(FileItems(PROJECTS_PATH)) :
                     FileItems(PROJECTS_PATH)[i].t = "obj") =>
              /\ Len(PROJECTS_DATA_LIST) = Len(ValidProjectsOfFile)
              /\ \A i \in 1..Len(ValidProjectsOfFile) :
                    PROJECTS_DATA_LIST[i].tech_stack
                        = ValidProjectsOfFile[i].o["languages_used"]

\* a record that supplies a tech_stack other than its languages_used has
\* been loaded
C19_Witness ==
    /\ Imported("import_projects")
    /\ IsArrayFile(PROJECTS_PATH)
    /\ Len(FileItems(PROJECTS_PATH)) = 1
    /\ ValidProject(FileItems(PROJECTS_PATH)[1])
    /\ "tech_stack" \in DOMAIN FileItems(PROJECTS_PATH)[1].o
    /\ FileItems(PROJECTS_PATH)[1].o["tech_stack"]
          # FileItems(PROJECTS_PATH)[1].o["languages_used"]
    /\ Len(PROJECTS_DATA_LIST) = 1
    /\ PROJECTS_DATA_LIST[1].tech_stack
          = FileItems(PROJECTS_PATH)[1].o["languages_used"]

----------------------------------------------------------------------------
(* Navigation.                                                              *)

\* the ids carried by the sections of the single page
SectionIds ==
    {section_container(SinglePageSections[i]).id.v :
        i \in {j \in 1..Len(SinglePageSections) :
                  section_container(SinglePageSections[j]).id.some}}

\* the href is a registered route, or an anchor to a section of the page
Reachable(href) ==
    \/ href \in Routes
    \/ \E id \in SectionIds : href \in {<<"#">> \o id, <<"/", "#">> \o id}

\* C20 as stated: every href of the navbar (the name link and the items
\* Work, Education, Skills, Projects, Contact-Me, in the desktop row and in
\* the mobile menu) is a route registered with the app or an anchor whose id
\* is on a section of the single page.
C20_NavTargetsExist ==
    NavbarRendered =>
        /\ Reachable(page.result.val.name_href)
        /\ \A i \in 1..Len(page.result.val.items) :
              Reachable(page.result.val.items[i].href)
        /\ \A i \in 1..Len(page.result.val.menu) :
              Reachable(page.result.val.menu[i].href)

----------------------------------------------------------------------------
(* The default colour.                                                      *)

\* a section has been rendered from a JSON array of objects, one component
\* per element
ArrayRendered(section, path) ==
    /\ pc = "serving"
    /\ page.section = section
    /\ IsArrayFile(path)
    /\ \A i \in 1..Len(FileItems(path)) : FileItems(path)[i].t = "obj"
    /\ page.result.exc = "none"
    /\ Len(page.result.val) = Len(FileItems(path))

\* every record of the file that has no color is shown in the given token
ColorlessShownIn(path, token) ==
    \A i \in 1..Len(FileItems(path)) :
        "color" \notin DOMAIN FileItems(path)[i].o =>
            page.result.val[i].color = token

\* C21 as stated: a record without color gets one and the same accent token
\* in every content type: the token a Project gets (DEFAULT_COLOR) is also
\* the token an Education record and a Work company get.
C21_OneDefaultColor ==
    /\ ArrayRendered("projects", PROJECTS_PATH) =>
          ColorlessShownIn(PROJECTS_PATH, DEFAULT_COLOR)
    /\ ArrayRendered("education", EDUCATION_PATH) =>
          ColorlessShownIn(EDUCATION_PATH, DEFAULT_COLOR)
    /\ ArrayRendered("work", WORK_PATH) =>
          ColorlessShownIn(WORK_PATH, DEFAULT_COLOR)

----------------------------------------------------------------------------
(* The shape of the loaded About record.                                    *)

\* C22 as stated: whatever parsable JSON value the about file holds (object,
\* array, string, number, null), load_about_me_data returns a dict with the
\* keys standard_bio, personal_insights, my_selfie and footnote all present.
C22_AboutKeysPresent ==
    (Imported("import_about") /\ fs[ABOUT_PATH].kind = "json") =>
        /\ ABOUT_ME_DATA.t = "obj"
        /\ AboutKeys \subseteq DOMAIN ABOUT_ME_DATA.o

----------------------------------------------------------------------------
(* Project arrays with elements of any JSON type.                           *)

\* C23 as stated: for every JSON array in the projects file, whatever the
\* type of its elements, load_projects_data never raises and returns exactly
\* the elements that validate as ProjectData, in their order.
C23_ValidSubsequence ==
    IsArrayFile(PROJECTS_PATH) =>
        /\ error.at # "import_projects"
        /\ Imported("import_projects") =>
              /\ Len(PROJECTS_DATA_LIST) = Len(ValidProjectsOfFile)
              /\ \A i \in 1..Len(ValidProjectsOfFile) :
                    PROJECTS_DATA_LIST[i].title = ValidProjectsOfFile[i].o["title"]

----------------------------------------------------------------------------
(* The resume in the navbar and in the contact record.                      *)

\* C24 as stated: after initialization NavbarState.resume_path is "" exactly
\* when CONTACT_DATA.resume is "", and is "/" + CONTACT_DATA.resume
\* otherwise, whatever the contact file holds.
C24_ResumeAgrees ==
    Imported("import_contact") =>
        /\ resume_path = <<>> <=> CONTACT_DATA.resume = <<>>
        /\ CONTACT_DATA.resume # <<>> =>
              resume_path = Slash(CONTACT_DATA.resume)

----------------------------------------------------------------------------
(* The navbars of the single page.                                          *)

\* C25 as stated: the page index() returns holds exactly one navbar: none of
\* the six section functions of single_page_content wraps its content in
\* base_page.
C25_OneNavbar ==
    (pc = "serving" /\ page.section = "index" /\ page.result.exc = "none") =>
        /\ page.result.val.navbars = 1
        /\ \A i \in 1..Len(page.result.val.sections) :
              ~section_container(page.result.val.sections[i]).base_page

----------------------------------------------------------------------------
(* The profile picture of the About section.                                *)

\* the image a top section shows, if any
TopImage(top) == IF top.kind = "box" THEN None ELSE top.image

\* C26: the top section of About shows the profile image exactly when
\* my_selfie is true and standard_bio is not empty; with an empty
\* standard_bio the top section is an empty box, whatever my_selfie.
C26_SelfieGate ==
    (Imported("import_about") /\ ABOUT_ME_DATA.t = "obj") =>
        LET top == top_bio_section(ABOUT_ME_DATA)
            bio == ABOUT_ME_DATA.o["standard_bio"]
            my_selfie == ABOUT_ME_DATA.o["my_selfie"]
        IN  /\ top.exc = "none"
            /\ TopImage(top.val).some <=> (my_selfie /\ bio # "")
            /\ bio = "" => top.val = Box
            /\ (pc = "serving" /\ page.section = "about"
                   /\ page.result.exc = "none") => page.result.val.top = top.val

\* the about section has been rendered for an empty biography with my_selfie
\* true
C26_Witness ==
    /\ pc = "serving"
    /\ page.section = "about"
    /\ page.result.exc = "none"
    /\ AboutComplete
    /\ ABOUT_ME_DATA.o["standard_bio"] = ""
    /\ ABOUT_ME_DATA.o["my_selfie"]
    /\ page.result.val.top = Box

----------------------------------------------------------------------------
(* The contact record is all of the file or none of it.                     *)

\* the record that a valid contact file describes, field by field
ContactOfFile ==
    LET d == fs[CONTACT_PATH].val.o
    IN  [profile_pic |-> d["profile_pic"], resume |-> d["resume"],
         qrcode |-> d["qrcode"],
         links |-> [i \in 1..Len(d["links"]) |->
                       [k \in {"name", "icon", "href", "color"} |->
                           d["links"][i].o[k]]],
         name |-> IF "name" \in DOMAIN d THEN d["name"] ELSE "Prabhat Racherla"]

\* the contact file has the four required keys and a link entry that does
\* not validate
OneLinkInvalid ==
    /\ fs[CONTACT_PATH] \notin Broken
    /\ fs[CONTACT_PATH].val.t = "obj"
    /\ {"profile_pic", "resume", "qrcode", "links"}
           \subseteq DOMAIN fs[CONTACT_PATH].val.o
    /\ ~ContactFileValid(fs[CONTACT_PATH].val)

\* C27: load_contact_data is all-or-nothing: CONTACT_DATA is the whole
\* validated file, or it is the fixed default; one invalid link entry makes
\* the whole record the default, profile_pic, resume and qrcode included.
C27_AllOrNothing ==
    Imported("import_contact") =>
        /\ \/ /\ fs[CONTACT_PATH] \notin Broken
              /\ ContactFileValid(fs[CONTACT_PATH].val)
              /\ CONTACT_DATA = ContactOfFile
           \/ CONTACT_DATA = ContactNamedDefault
        /\ OneLinkInvalid => CONTACT_DATA = ContactNamedDefault

\* a contact file with a valid link, an invalid link and a picture has been
\* loaded as the default record
C27_Witness ==
    /\ Imported("import_contact")
    /\ OneLinkInvalid
    /\ \E i \in 1..Len(fs[CONTACT_PATH].val.o["links"]) :
          IsContactLink(fs[CONTACT_PATH].val.o["links"][i])
    /\ fs[CONTACT_PATH].val.o["profile_pic"] # <<>>
    /\ CONTACT_DATA.profile_pic = <<>>
    /\ CONTACT_DATA.links = <<>>

----------------------------------------------------------------------------
(* The shape of the resolved resume path.                                   *)

\* C28: for every content of the contact file, the resolved resume path is
\* "" or "/" followed by a non-empty name that does not start with "/"; it is
\* never the bare "/".
C28_NoBareSlash ==
    Imported("import_navbar") =>
        \/ resume_path = <<>>
        \/ /\ Len(resume_path) >= 2
           /\ resume_path[1] = "/"
           /\ resume_path[2] # "/"

----------------------------------------------------------------------------
(* The e-vCard reads the contact record.                                    *)

\* C29: for every ContactData that load_contact_data returns, from the file
\* or the default, get_vcf_download_path and evcard_page complete without
\* raising: download_vcf, full_name, phone_number, vcf_image and links are
\* all attributes of the record.
C29_VcardReadsExist ==
    Imported("import_contact") =>
        /\ {"download_vcf", "full_name", "phone_number", "vcf_image", "links"}
               \subseteq DOMAIN CONTACT_DATA
        /\ get_vcf_download_path(CONTACT_DATA).exc = "none"
        /\ evcard_page(CONTACT_DATA).exc = "none"

====
